---- MODULE Spec2Model ----
(***************************************************************************)
(* obsidian-r2-sync: the shared three-manifest diff, the manifest routes   *)
(* of the worker over the R2 bucket, and the plugin's sync cycle.          *)
(*                                                                         *)
(* Paths and content hashes are small naturals standing for the strings    *)
(* of the program.  A FileEntry keeps path and hash (mtime, size and       *)
(* lastModifiedBy are advisory and never read by the code modelled here).  *)
(***************************************************************************)
EXTENDS Integers, Sequences, FiniteSets, TLC

\* ------------------------------------------------------------------ bounds
MaxPath == 2
MaxHash == 3
\* manifest revisions the bucket may take (caps the ETag counter)
MaxEtag == 3
\* paths and content hashes of the vaults in the sync-cycle specification
MaxVaultPath == 1
MaxVaultHash == 2
\* user edits (writes and deletions of vault files) in one behaviour
MaxEdits == 1
\* TransferQueue: tasks enqueued, the largest concurrency limit, the distinct
\* results and the distinct thrown values of execute()
MaxTasks == 3
MaxConcurrency == 2
MaxResult == 1
MaxThrown == 2
\* characters of a bearer token
MaxTokenLen == 6
\* characters of a token sent without the Bearer scheme
SchemeTokenLen == 4
\* characters of a path sent to a file route; paths in a bulk delete and
\* the characters of each
MaxPathLen == 5
MaxBulk == 2
MaxBulkPathLen == 3
\* conflicts prompted for in one resolveConflicts call
MaxPrompts == 3

Paths == 1..MaxPath
Hashes == 1..MaxHash
VaultPaths == 1..MaxVaultPath
VaultHashes == 1..MaxVaultHash

\* JS null / undefined, where an object (entry, manifest, result) is expected
Null == [null |-> TRUE]

\* undefined, where a hash string is expected
NoHash == 0

\* ------------------------------------------------------- manifests (types)
FileEntry(p, h) == [path |-> p, hash |-> h]

\* every Record<string, FileEntry> over Paths with entry.path = key
FilesOver(PS, HS) ==
  UNION { { [p \in D |-> FileEntry(p, hf[p])] : hf \in [D -> HS] } : D \in SUBSET PS }

SyncManifest(files) == [files |-> files]

EmptyFiles == [p \in {} |-> FileEntry(p, NoHash)]

ManifestsOver(PS, HS) == { SyncManifest(f) : f \in FilesOver(PS, HS) }

\* the content hash a manifest (or null) records for a path, if any
HashOrNone(m, path) ==
  IF m # Null /\ path \in DOMAIN m.files THEN m.files[path].hash ELSE NoHash

\* m.files[path] : the entry, or undefined
EntryOf(m, path) == IF path \in DOMAIN m.files THEN m.files[path] ELSE Null

RECURSIVE SortedKeys(_)
\* Object.keys(files): the keys, in the object's (here ascending) key order
SortedKeys(S) ==
  IF S = {} THEN <<>>
  ELSE LET x == CHOOSE x \in S : \A y \in S : x <= y
       IN  <<x>> \o SortedKeys(S \ {x})

RECURSIVE Dedup(_, _)
\* new Set([...]) : insertion order, duplicates dropped
Dedup(s, seen) ==
  IF s = <<>> THEN <<>>
  ELSE IF Head(s) \in seen THEN Dedup(Tail(s), seen)
       ELSE <<Head(s)>> \o Dedup(Tail(s), seen \cup {Head(s)})

Range(s) == { s[i] : i \in DOMAIN s }

\* ------------------------------------------------------- diffManifests
EmptyDiff ==
  [toUpload |-> <<>>, toDownload |-> <<>>, toDeleteRemote |-> <<>>,
   toDeleteLocal |-> <<>>, conflicts |-> <<>>]

ConflictEntry(path, l, r, baseHash) ==
  [path |-> path, local |-> l, remote |-> r, baseHash |-> baseHash]

PushUpload(d, e) == [d EXCEPT !.toUpload = Append(@, e)]
PushDownload(d, e) == [d EXCEPT !.toDownload = Append(@, e)]
PushDeleteRemote(d, p) == [d EXCEPT !.toDeleteRemote = Append(@, p)]
PushDeleteLocal(d, p) == [d EXCEPT !.toDeleteLocal = Append(@, p)]
PushConflict(d, c) == [d EXCEPT !.conflicts = Append(@, c)]

AllPaths(local, remote, base) ==
  Dedup(SortedKeys(DOMAIN local.files) \o SortedKeys(DOMAIN remote.files)
          \o (IF base # Null THEN SortedKeys(DOMAIN base.files) ELSE <<>>), {})

LocalChanged(localEntry, baseEntry) ==
  IF localEntry # Null /\ baseEntry # Null THEN localEntry.hash # baseEntry.hash ELSE FALSE

RemoteChanged(remoteEntry, baseEntry) ==
  IF remoteEntry # Null /\ baseEntry # Null THEN remoteEntry.hash # baseEntry.hash ELSE FALSE

\* mutant: a locally modified, remotely deleted path is also queued for local deletion
LocalOnlyFallThrough(d, path, localEntry, baseEntry) ==
  IF baseEntry # Null
  THEN IF LocalChanged(localEntry, baseEntry)
       THEN PushDeleteLocal(
              PushConflict(d, ConflictEntry(path, localEntry, baseEntry, baseEntry.hash)), path)
       ELSE PushDeleteLocal(d, path)
  ELSE PushUpload(d, localEntry)

\* localEntry && !remoteEntry
LocalOnly(d, path, localEntry, baseEntry) ==
  IF baseEntry # Null
  THEN IF LocalChanged(localEntry, baseEntry)
       THEN PushConflict(d, ConflictEntry(path, localEntry, baseEntry, baseEntry.hash))
       ELSE PushDeleteLocal(d, path)
  ELSE PushUpload(d, localEntry)

\* mutant: an unchanged remote copy of a locally deleted path is downloaded again
RemoteOnlyRedownload(d, path, remoteEntry, baseEntry) ==
  IF baseEntry # Null
  THEN IF RemoteChanged(remoteEntry, baseEntry)
       THEN PushConflict(d, ConflictEntry(path, baseEntry, remoteEntry, baseEntry.hash))
       ELSE PushDownload(d, remoteEntry)
  ELSE PushDownload(d, remoteEntry)

\* !localEntry && remoteEntry
RemoteOnly(d, path, remoteEntry, baseEntry) ==
  IF baseEntry # Null
  THEN IF RemoteChanged(remoteEntry, baseEntry)
       THEN PushConflict(d, ConflictEntry(path, baseEntry, remoteEntry, baseEntry.hash))
       ELSE PushDeleteRemote(d, path)
  ELSE PushDownload(d, remoteEntry)

\* the base-relative part of the both-present case
BothByBase(d, path, localEntry, remoteEntry, baseEntry, base) ==
  IF base # Null
  THEN LET lc == LocalChanged(localEntry, baseEntry)
           rc == RemoteChanged(remoteEntry, baseEntry)
           bh == IF baseEntry # Null THEN baseEntry.hash ELSE NoHash
       IN  IF lc /\ ~rc THEN PushUpload(d, localEntry)
           ELSE IF ~lc /\ rc THEN PushDownload(d, remoteEntry)
           ELSE PushConflict(d, ConflictEntry(path, localEntry, remoteEntry, bh))
  ELSE PushConflict(d, ConflictEntry(path, localEntry, remoteEntry, NoHash))

\* mutant: the equal-hash test is made after the base check, only when no base exists
BothPresentBaseFirst(d, path, localEntry, remoteEntry, baseEntry, base) ==
  IF base = Null /\ localEntry.hash = remoteEntry.hash THEN d
  ELSE BothByBase(d, path, localEntry, remoteEntry, baseEntry, base)

\* mutant: the equal-hash short-circuit is skipped when the base entry differs
BothPresentStaleBase(d, path, localEntry, remoteEntry, baseEntry, base) ==
  IF localEntry.hash = remoteEntry.hash
       /\ (baseEntry = Null \/ baseEntry.hash = localEntry.hash) THEN d
  ELSE BothByBase(d, path, localEntry, remoteEntry, baseEntry, base)

\* localEntry && remoteEntry
BothPresent(d, path, localEntry, remoteEntry, baseEntry, base) ==
  IF localEntry.hash = remoteEntry.hash THEN d
  ELSE BothByBase(d, path, localEntry, remoteEntry, baseEntry, base)

\* one iteration of the loop over allPaths
DiffStep(d, path, local, remote, base) ==
  LET localEntry == EntryOf(local, path)
      remoteEntry == EntryOf(remote, path)
      baseEntry == IF base # Null THEN EntryOf(base, path) ELSE Null
  IN  IF localEntry # Null /\ remoteEntry = Null
        THEN LocalOnly(d, path, localEntry, baseEntry)
      ELSE IF localEntry = Null /\ remoteEntry # Null
        THEN RemoteOnly(d, path, remoteEntry, baseEntry)
      ELSE IF localEntry # Null /\ remoteEntry # Null
        THEN BothPresent(d, path, localEntry, remoteEntry, baseEntry, base)
      ELSE d

RECURSIVE DiffLoop(_, _, _, _, _)
DiffLoop(d, paths, local, remote, base) ==
  IF paths = <<>> THEN d
  ELSE DiffLoop(DiffStep(d, Head(paths), local, remote, base), Tail(paths), local, remote, base)

diffManifests(local, remote, base) ==
  DiffLoop(EmptyDiff, AllPaths(local, remote, base), local, remote, base)

isDiffEmpty(diff) ==
  /\ Len(diff.toUpload) = 0
  /\ Len(diff.toDownload) = 0
  /\ Len(diff.toDeleteRemote) = 0
  /\ Len(diff.toDeleteLocal) = 0
  /\ Len(diff.conflicts) = 0

\* ------------------------------------------------------- strings, ETags
\* A header or JSON string is a sequence of character codes; Quote is '"',
\* and an ETag "etag-<n>-<ts>" is the one-code string <<n>>, n >= 1.
Quote == 0

\* an absent header / a JSON null where a string is expected
NoString == <<-1>>

\* JS truthiness of a string | null | undefined
Truthy(s) == s # NoString /\ s # <<>>

NotQuote(c) == c # Quote

\* ifMatch.replace(/"/g, "")
StripQuotes(s) == SelectSeq(s, NotQuote)

\* generateEtag(): etagCounter++, then the new tag
generateEtag(counter) == <<counter + 1>>

\* httpEtag: `"${etag}"`
HttpEtagOf(etag) == <<Quote>> \o etag \o <<Quote>>

StoredObject(body, etag) == [body |-> body, etag |-> etag, httpEtag |-> HttpEtagOf(etag)]

\* mutant: the conditional put compares the quoted form of the stored tag
R2PutConditionMetQuoted(existing, etagMatches) ==
  IF Truthy(etagMatches)
  THEN existing # Null /\ existing.httpEtag = etagMatches
  ELSE TRUE

\* MockR2Bucket.put: whether the onlyIf condition lets the write through
R2PutConditionMet(existing, etagMatches) ==
  IF Truthy(etagMatches)
  THEN existing # Null /\ existing.etag = etagMatches
  ELSE TRUE

\* putOptions.onlyIf.etagMatches as the manifest route sets it
PutOnlyIf(ifMatch) == IF Truthy(ifMatch) THEN StripQuotes(ifMatch) ELSE NoString

\* existingObject && !ifMatch
Needs428(existingObject, ifMatch) == existingObject # Null /\ ~Truthy(ifMatch)

NoRequest ==
  [stage |-> "none", ifMatch |-> NoString, body |-> SyncManifest(EmptyFiles),
   status |-> 0, etag |-> NoString]

Clients == {1, 2}

Devices == Clients

\* ------------------------------------------------------- sync engine (pure)
\* const MAX_RETRIES of the engine: cycle executions per sync()
MAX_RETRIES == 3

\* isExcluded: some pattern of settings.excludePatterns matches the path.  A
\* pattern stands here for the set of vault paths its regular expression accepts.
isExcluded(excludePatterns, path) == \E pattern \in excludePatterns : path \in pattern

\* buildLocalManifest: one entry per vault file that is not excluded, hashed
\* from its content
buildLocalManifest(v, excludePatterns) ==
  SyncManifest([p \in {q \in DOMAIN v : v[q] # NoHash /\ ~isExcluded(excludePatterns, q)}
                 |-> FileEntry(p, v[p])])

\* ApiClient.getManifest over GET /manifest
GetManifestResponse(object) ==
  IF object = Null
  THEN [manifest |-> SyncManifest(EmptyFiles), etag |-> NoString]
  ELSE [manifest |-> object.body, etag |-> object.httpEtag]

\* ApiClient.putManifest: If-Match only for a truthy etag
IfMatchHeader(etag) == IF Truthy(etag) THEN etag ELSE NoString

ResolvedConflict(path, action, entry) == [path |-> path, action |-> action, entry |-> entry]

\* files without the key path
Without(files, path) == [p \in (DOMAIN files) \ {path} |-> files[p]]

\* files[path] = entry
With(files, path, entry) ==
  [p \in (DOMAIN files) \cup {path} |-> IF p = path THEN entry ELSE files[p]]

RECURSIVE ApplyEntries(_, _)
ApplyEntries(files, entries) ==
  IF entries = <<>> THEN files
  ELSE ApplyEntries(With(files, Head(entries).path, Head(entries)), Tail(entries))

RECURSIVE ApplyResolved(_, _)
ApplyResolved(files, resolved) ==
  IF resolved = <<>> THEN files
  ELSE ApplyResolved(
         IF Head(resolved).action = "deleted"
         THEN Without(files, Head(resolved).path)
         ELSE With(files, Head(resolved).path, Head(resolved).entry),
         Tail(resolved))

RECURSIVE ApplyDeletes(_, _)
ApplyDeletes(files, paths) ==
  IF paths = <<>> THEN files
  ELSE ApplyDeletes(Without(files, Head(paths)), Tail(paths))

\* mutant: the remote deletions are not applied
updatedManifestKeepsDeleted(remoteManifest, diff, resolvedConflicts) ==
  SyncManifest(
    ApplyEntries(ApplyResolved(ApplyEntries(remoteManifest.files, diff.toUpload), resolvedConflicts),
                 diff.toDownload))

\* step 10 of executeSyncCycle: the manifest sent to PUT /manifest
updatedManifest(remoteManifest, diff, resolvedConflicts) ==
  SyncManifest(
    ApplyEntries(
      ApplyDeletes(
        ApplyResolved(ApplyEntries(remoteManifest.files, diff.toUpload), resolvedConflicts),
        diff.toDeleteRemote),
      diff.toDownload))

\* the locals of one executeSyncCycle call
NoCycle ==
  [localManifest |-> Null, remoteManifest |-> Null, etag |-> NoString, diff |-> Null,
   resolved |-> <<>>, ci |-> 1, pendingDown |-> {}, pendingUp |-> {},
   remoteDeleted |-> FALSE, li |-> 1, awaited |-> {}]

\* mutant: the bulk remote delete comes before the transfers of steps 6 and 7
PhaseOfDeleteFirst(c) ==
  IF c.ci <= Len(c.diff.conflicts) THEN "resolve"
  ELSE IF Len(c.diff.toDeleteRemote) > 0 /\ ~c.remoteDeleted THEN "deleteRemote"
  ELSE IF c.pendingDown # {} THEN "download"
  ELSE IF c.pendingUp # {} THEN "upload"
  ELSE IF c.li <= Len(c.diff.toDeleteLocal) THEN "deleteLocal"
  ELSE "commit"

\* the step of executeSyncCycle that runs next, given its locals
PhaseOf(c) ==
  IF c.ci <= Len(c.diff.conflicts) THEN "resolve"
  ELSE IF c.pendingDown # {} THEN "download"
  ELSE IF c.pendingUp # {} THEN "upload"
  ELSE IF Len(c.diff.toDeleteRemote) > 0 /\ ~c.remoteDeleted THEN "deleteRemote"
  ELSE IF c.li <= Len(c.diff.toDeleteLocal) THEN "deleteLocal"
  ELSE "commit"

\* ------------------------------------------------------------------ state
VARIABLES
  dLocal, dRemote, dBase,   \* arguments of a diffManifests call
  dResult,                  \* its DiffResult, Null before the call
  dPhase,                   \* "input" | "done"
  manifestObj,              \* the bucket's object at MANIFEST_KEY, or Null
  etagCounter,              \* the bucket's revision counter
  req,                      \* per client: its PUT /manifest request in the worker
  objects,                  \* the bucket's objects at vault/<path>: content hash or NoHash
  vault,                    \* per device: its files, content hash or NoHash
  edits,                    \* user edits made so far
  settings,                 \* per device: conflictStrategy, excludePatterns
  baseManifest, lastEtag,   \* per device: persisted plugin data
  isSyncing,                \* per device: the plugin's in-progress flag
  notice,                   \* per device: the last outcome triggerSync reported
  running,                  \* per device: sync() calls started and not yet ended
  pc,                       \* per device: the step its cycle is at, or "idle"
  retries, force,           \* per device: locals of sync()
  cyc,                      \* per device: locals of executeSyncCycle
  commitLog,                \* history: (device, fetched ETag) of every cycle whose PUT got 200
  behind,                   \* history: another device committed since this one's last commit or no-op fetch
  rerunClean,               \* history: this sync() re-ran after 412 and nobody else committed since
  cycles,                   \* history: per device, executeSyncCycle calls of the running sync()
  concurrency,              \* TransferQueue: the limit given to the constructor
  queue,                    \* TransferQueue: the waiting tasks, head first
  active,                   \* TransferQueue: the active counter
  task,                     \* per task: retries, its execute() call, its callbacks, its future
  env,                      \* worker: the bindings (AUTH_SECRET)
  appReq,                   \* worker: the HTTP request handed to app.fetch
  appRes,                   \* worker: its response, NoResponse before it is handled
  r2,                       \* bucket: the keys (strings) of the objects next to the manifest
  heap,                     \* applyDiffToManifest: the files objects, by address
  apply,                    \* applyDiffToManifest: the call's arguments and result
  modal,                    \* ConflictModal: the prompt of the conflict being asked about
  asked                     \* resolveConflicts: the resolutions its prompts have returned

diffVars == <<dLocal, dRemote, dBase, dResult, dPhase>>

srvVars == <<manifestObj, etagCounter, req>>

devVars ==
  <<vault, edits, settings, baseManifest, lastEtag, isSyncing, notice, running, pc, retries, force, cyc>>

histVars == <<commitLog, behind, rerunClean, cycles>>

queueVars == <<concurrency, queue, active, task>>

appVars == <<env, appReq, appRes, r2>>

libVars == <<heap, apply, modal, asked>>

vars ==
  <<dLocal, dRemote, dBase, dResult, dPhase, manifestObj, etagCounter, req, objects,
    vault, edits, settings, baseManifest, lastEtag, isSyncing, notice, running, pc, retries,
    force, cyc, commitLog, behind, rerunClean, cycles, concurrency, queue,
    active, task, env, appReq, appRes, r2, heap, apply, modal, asked>>

\* ------------------------------------------------ the shared library and the prompt, at rest
IdleLib ==
  /\ heap = <<>>
  /\ apply = [phase |-> "idle"]
  /\ modal = [stage |-> "none"]
  /\ asked = <<>>

\* ------------------------------------------------ diffManifests, as called
InitDiffArgs ==
  /\ dLocal \in ManifestsOver(Paths, Hashes)
  /\ dRemote \in ManifestsOver(Paths, Hashes)
  /\ dBase \in ManifestsOver(Paths, Hashes) \cup {Null}
  /\ dResult = Null
  /\ dPhase = "input"

\* the diff harness at rest, for the specifications that do not use it
IdleDiffArgs ==
  /\ dLocal = SyncManifest(EmptyFiles)
  /\ dRemote = SyncManifest(EmptyFiles)
  /\ dBase = Null
  /\ dResult = Null
  /\ dPhase = "idle"

CallDiff ==
  /\ dPhase = "input"
  /\ dResult' = diffManifests(dLocal, dRemote, dBase)
  /\ dPhase' = "done"
  /\ UNCHANGED <<dLocal, dRemote, dBase>>
  /\ UNCHANGED <<srvVars, objects, devVars, histVars, queueVars, libVars, appVars>>

\* ------------------------------------------------ worker: PUT /manifest
InitBucket ==
  /\ manifestObj = Null
  /\ etagCounter = 0
  /\ req = [c \in Clients |-> NoRequest]
  /\ objects = [p \in VaultPaths |-> NoHash]

\* a client hands a PUT /manifest to the worker
SendPut(c, ifMatch, body) ==
  req' = [req EXCEPT ![c] =
            [stage |-> "head", ifMatch |-> ifMatch, body |-> body,
             status |-> 0, etag |-> NoString]]

\* BUCKET.head(MANIFEST_KEY), then the 428 test
SrvHead(c) ==
  /\ req[c].stage = "head"
  /\ IF Needs428(manifestObj, req[c].ifMatch)
     THEN req' = [req EXCEPT ![c].stage = "resp", ![c].status = 428]
     ELSE req' = [req EXCEPT ![c].stage = "put"]
  /\ UNCHANGED <<manifestObj, etagCounter>>
  /\ UNCHANGED <<diffVars, objects, devVars, histVars, queueVars, libVars, appVars>>

\* BUCKET.put(MANIFEST_KEY, body, {onlyIf}), then 412 or 200
SrvPut(c) ==
  /\ req[c].stage = "put"
  /\ IF R2PutConditionMet(manifestObj, PutOnlyIf(req[c].ifMatch))
     THEN /\ etagCounter < MaxEtag
          /\ LET result == StoredObject(req[c].body, generateEtag(etagCounter))
             IN  /\ manifestObj' = result
                 /\ etagCounter' = etagCounter + 1
                 /\ req' = [req EXCEPT ![c].stage = "resp", ![c].status = 200,
                                       ![c].etag = result.httpEtag]
          /\ behind' = [d \in Devices |-> d # c]
          /\ rerunClean' = [d \in Devices |-> d = c /\ rerunClean[d]]
     ELSE /\ req' = [req EXCEPT ![c].stage = "resp", ![c].status = 412]
          /\ UNCHANGED <<manifestObj, etagCounter, behind, rerunClean>>
  /\ UNCHANGED <<diffVars, objects, devVars, commitLog, cycles, queueVars, libVars, appVars>>

\* ------------------------------------------------ the manifest service alone
\* header values a client may send: none, empty, bare quotes, and every tag
\* the bucket can issue, quoted (as GET and PUT return it) or not
IfMatchValues ==
  {NoString, <<>>, <<Quote, Quote>>}
    \cup { HttpEtagOf(<<n>>) : n \in 1..MaxEtag } \cup { <<n>> : n \in 1..MaxEtag }

ServiceBodies == ManifestsOver({1}, {1, 2})

\* a client sends PUT /manifest with one of the given headers and bodies
RawSendOf(c, ifMatches, bodies) ==
  /\ req[c].stage = "none"
  /\ \E ifMatch \in ifMatches, body \in bodies : SendPut(c, ifMatch, body)
  /\ UNCHANGED <<manifestObj, etagCounter>>
  /\ UNCHANGED <<diffVars, objects, devVars, histVars, queueVars, libVars, appVars>>

RawSend(c) == RawSendOf(c, IfMatchValues, ServiceBodies)

RawReceive(c) ==
  /\ req[c].stage = "resp"
  /\ req' = [req EXCEPT ![c] = NoRequest]
  /\ UNCHANGED <<manifestObj, etagCounter>>
  /\ UNCHANGED <<diffVars, objects, devVars, histVars, queueVars, libVars, appVars>>

\* ------------------------------------------------ plugin: triggerSync, sync
ConflictStrategies == {"keep-local", "keep-remote"}

InitDevices ==
  /\ vault \in [Devices -> [VaultPaths -> VaultHashes \cup {NoHash}]]
  /\ edits = 0
  /\ settings \in [Devices -> [conflictStrategy : ConflictStrategies, excludePatterns : {{}}]]
  /\ baseManifest = [d \in Devices |-> Null]
  /\ lastEtag = [d \in Devices |-> NoString]
  /\ isSyncing = [d \in Devices |-> FALSE]
  /\ notice = [d \in Devices |-> "none"]
  /\ running = [d \in Devices |-> 0]
  /\ pc = [d \in Devices |-> "idle"]
  /\ retries = [d \in Devices |-> 0]
  /\ force = [d \in Devices |-> FALSE]
  /\ cyc = [d \in Devices |-> NoCycle]
  /\ commitLog = {}
  /\ behind = [d \in Devices |-> FALSE]
  /\ rerunClean = [d \in Devices |-> FALSE]
  /\ cycles = [d \in Devices |-> 0]

\* the devices at rest, for the specifications that do not use them
IdleDevices ==
  /\ vault = [d \in Devices |-> [p \in VaultPaths |-> NoHash]]
  /\ edits = 0
  /\ settings = [d \in Devices |-> [conflictStrategy |-> "keep-local", excludePatterns |-> {}]]
  /\ baseManifest = [d \in Devices |-> Null]
  /\ lastEtag = [d \in Devices |-> NoString]
  /\ isSyncing = [d \in Devices |-> FALSE]
  /\ notice = [d \in Devices |-> "none"]
  /\ running = [d \in Devices |-> 0]
  /\ pc = [d \in Devices |-> "idle"]
  /\ retries = [d \in Devices |-> 0]
  /\ force = [d \in Devices |-> FALSE]
  /\ cyc = [d \in Devices |-> NoCycle]
  /\ commitLog = {}
  /\ behind = [d \in Devices |-> FALSE]
  /\ rerunClean = [d \in Devices |-> FALSE]
  /\ cycles = [d \in Devices |-> 0]

\* the frame of a step that touches neither the worker nor the bucket
ServerUnchanged == UNCHANGED <<srvVars, objects>>

\* mutant: the flag is cleared on the success path only
FlagAfterSuccessOnly(outcome) == outcome # "complete"

\* finally { this.isSyncing = false }: the flag after sync() ended, however
FlagAfter(outcome) == FALSE

\* sync() ends; triggerSync reports the outcome and clears the flag
EndSync(d, outcome) ==
  /\ isSyncing' = [isSyncing EXCEPT ![d] = FlagAfter(outcome)]
  /\ notice' = [notice EXCEPT ![d] = outcome]
  /\ running' = [running EXCEPT ![d] = @ - 1]
  /\ pc' = [pc EXCEPT ![d] = "idle"]
  /\ retries' = [retries EXCEPT ![d] = 0]
  /\ force' = [force EXCEPT ![d] = FALSE]
  /\ cyc' = [cyc EXCEPT ![d] = NoCycle]
  /\ cycles' = [cycles EXCEPT ![d] = 0]

\* the cycle goes on with locals c
StepCycle(d, c) ==
  /\ cyc' = [cyc EXCEPT ![d] = c]
  /\ pc' = [pc EXCEPT ![d] = PhaseOf(c)]
  /\ UNCHANGED <<isSyncing, notice, running, retries, force>>

\* mutant: the in-progress flag is not consulted
AlreadySyncingIgnored(d) == FALSE

\* if (this.isSyncing)
AlreadySyncing(d) == isSyncing[d]

triggerSync(d, forceFullSync) ==
  /\ IF AlreadySyncing(d)
     THEN /\ notice' = [notice EXCEPT ![d] = "skipping"]
          /\ UNCHANGED <<isSyncing, running, pc, retries, force, cyc, rerunClean, cycles>>
     ELSE /\ isSyncing' = [isSyncing EXCEPT ![d] = TRUE]
          /\ notice' = [notice EXCEPT ![d] = "syncing"]
          /\ running' = [running EXCEPT ![d] = @ + 1]
          /\ pc' = [pc EXCEPT ![d] = "scan"]
          /\ retries' = [retries EXCEPT ![d] = 0]
          /\ force' = [force EXCEPT ![d] = forceFullSync]
          /\ cyc' = [cyc EXCEPT ![d] = NoCycle]
          /\ rerunClean' = [rerunClean EXCEPT ![d] = FALSE]
          /\ cycles' = [cycles EXCEPT ![d] = 0]
  /\ UNCHANGED <<vault, edits, settings, baseManifest, lastEtag, commitLog, behind>>
  /\ ServerUnchanged
  /\ UNCHANGED <<diffVars, queueVars, libVars, appVars>>

\* step 1: buildLocalManifest
Scan(d) ==
  /\ pc[d] = "scan"
  /\ cyc' = [cyc EXCEPT ![d] = [NoCycle EXCEPT !.localManifest = buildLocalManifest(vault[d], settings[d].excludePatterns)]]
  /\ pc' = [pc EXCEPT ![d] = "fetch"]
  /\ cycles' = [cycles EXCEPT ![d] = @ + 1]
  /\ UNCHANGED <<vault, edits, settings, baseManifest, lastEtag, isSyncing, notice, running,
                 retries, force, commitLog, behind, rerunClean>>
  /\ ServerUnchanged
  /\ UNCHANGED <<diffVars, queueVars, libVars, appVars>>

\* steps 2-4: getManifest, diffManifests, and the return on an empty diff
Fetch(d) ==
  /\ pc[d] = "fetch"
  /\ LET r == GetManifestResponse(manifestObj)
         base == IF force[d] THEN Null ELSE baseManifest[d]
         diff == diffManifests(cyc[d].localManifest, r.manifest, base)
     IN  IF isDiffEmpty(diff)
         THEN /\ EndSync(d, "complete")
              /\ behind' = [behind EXCEPT ![d] = FALSE]
         ELSE /\ StepCycle(d, [cyc[d] EXCEPT !.remoteManifest = r.manifest, !.etag = r.etag,
                                            !.diff = diff,
                                            !.pendingDown = DOMAIN diff.toDownload,
                                            !.pendingUp = DOMAIN diff.toUpload])
              /\ UNCHANGED <<behind, cycles>>
  /\ UNCHANGED <<vault, edits, settings, baseManifest, lastEtag, commitLog, rerunClean>>
  /\ ServerUnchanged
  /\ UNCHANGED <<diffVars, queueVars, libVars, appVars>>

\* uploadFile: the vault file must exist; its current bytes are PUT to vault/<path>
uploadFileFound(d, entry) == vault[d][entry.path] # NoHash

uploadFilePut(d, entry) == objects' = [objects EXCEPT ![entry.path] = vault[d][entry.path]]

\* downloadFile: the object must exist (response.ok); its bytes are written to the vault
downloadFileOk(entry) == objects[entry.path] # NoHash

downloadFileWrite(d, entry) == vault' = [vault EXCEPT ![d][entry.path] = objects[entry.path]]

\* executeSyncCycle throws an error other than ManifestConflictError; sync()
\* rethrows it and triggerSync shows its message
FailCycle(d, message) ==
  /\ EndSync(d, message)
  /\ UNCHANGED <<vault, edits, objects, settings, baseManifest, lastEtag, srvVars>>
  /\ UNCHANGED <<commitLog, behind, rerunClean>>
  /\ UNCHANGED <<diffVars, queueVars, libVars, appVars>>

\* type ConflictResolution
ConflictResolutions == {"keep-local", "keep-remote", "merge"}

\* resolveConflicts: the resolutions a strategy can give a conflict; under
\* "ask" the one the prompt returns
ResolutionsOf(strategy) ==
  IF strategy = "keep-local" THEN {"keep-local"}
  ELSE IF strategy = "keep-remote" THEN {"keep-remote"}
  ELSE IF strategy = "three-way-merge" THEN {"merge"}
  ELSE ConflictResolutions

\* conflict.path.endsWith(".md"): the odd paths are notes
isMdFile(path) == path % 2 = 1

\* mutant: every path is merged
MergedAlways(d, conflict, resolution) == resolution = "merge"

\* applyConflictResolution reaches the three-way merge: the resolution is
\* merge, the path is a note and the vault has the file
Merged(d, conflict, resolution) ==
  resolution = "merge" /\ isMdFile(conflict.path) /\ vault[d][conflict.path] # NoHash

\* step 5: resolveConflicts, one conflict per step (applyConflictResolution).
\* The merged content is what the diff-match-patch library makes of the two
\* versions: some content.
Resolve(d) ==
  /\ pc[d] = "resolve"
  /\ \E resolution \in ResolutionsOf(settings[d].conflictStrategy) :
       LET conflict == cyc[d].diff.conflicts[cyc[d].ci]
           done(action, entry) ==
             [cyc[d] EXCEPT !.ci = @ + 1,
                            !.resolved = Append(@, ResolvedConflict(conflict.path, action, entry))]
       IN  IF resolution = "keep-local"
           THEN IF uploadFileFound(d, conflict.local)
                THEN /\ uploadFilePut(d, conflict.local)
                     /\ StepCycle(d, done("uploaded", conflict.local))
                     /\ UNCHANGED <<vault, edits, settings, baseManifest, lastEtag, histVars, srvVars>>
                     /\ UNCHANGED <<diffVars, queueVars, libVars, appVars>>
                ELSE FailCycle(d, "failed: File not found")
           ELSE IF Merged(d, conflict, resolution)
           THEN \E merged \in VaultHashes :
                  /\ vault' = [vault EXCEPT ![d][conflict.path] = merged]
                  /\ objects' = [objects EXCEPT ![conflict.path] = merged]
                  /\ StepCycle(d, done("uploaded", FileEntry(conflict.path, merged)))
                  /\ UNCHANGED <<edits, settings, baseManifest, lastEtag, histVars, srvVars>>
                  /\ UNCHANGED <<diffVars, queueVars, libVars, appVars>>
           ELSE IF downloadFileOk(conflict.remote)
                THEN /\ downloadFileWrite(d, conflict.remote)
                     /\ StepCycle(d, done("downloaded", conflict.remote))
                     /\ UNCHANGED <<objects, edits, settings, baseManifest, lastEtag, histVars, srvVars>>
                     /\ UNCHANGED <<diffVars, queueVars, libVars, appVars>>
                ELSE FailCycle(d, "failed: Failed to download")

\* step 6: one download task of the transfer queue settles
Download(d) ==
  /\ pc[d] = "download"
  /\ \E i \in cyc[d].pendingDown :
       LET entry == cyc[d].diff.toDownload[i]
       IN  IF downloadFileOk(entry)
           THEN /\ downloadFileWrite(d, entry)
                /\ StepCycle(d, [cyc[d] EXCEPT !.pendingDown = @ \ {i}])
                /\ UNCHANGED <<objects, edits, settings, baseManifest, lastEtag, histVars, srvVars>>
                /\ UNCHANGED <<diffVars, queueVars, libVars, appVars>>
           ELSE FailCycle(d, "failed: Failed to download")

\* step 7: one upload task of the transfer queue settles
Upload(d) ==
  /\ pc[d] = "upload"
  /\ \E i \in cyc[d].pendingUp :
       LET entry == cyc[d].diff.toUpload[i]
       IN  IF uploadFileFound(d, entry)
           THEN /\ uploadFilePut(d, entry)
                /\ StepCycle(d, [cyc[d] EXCEPT !.pendingUp = @ \ {i}])
                /\ UNCHANGED <<vault, edits, settings, baseManifest, lastEtag, histVars, srvVars>>
                /\ UNCHANGED <<diffVars, queueVars, libVars, appVars>>
           ELSE FailCycle(d, "failed: File not found")

\* step 8: api.deleteFiles(diff.toDeleteRemote), the worker's bulk BUCKET.delete
DeleteRemote(d) ==
  /\ pc[d] = "deleteRemote"
  /\ objects' = [p \in DOMAIN objects |->
                   IF p \in Range(cyc[d].diff.toDeleteRemote) THEN NoHash ELSE objects[p]]
  /\ StepCycle(d, [cyc[d] EXCEPT !.remoteDeleted = TRUE])
  /\ UNCHANGED <<vault, edits, settings, baseManifest, lastEtag, histVars, srvVars>>
  /\ UNCHANGED <<diffVars, queueVars, libVars, appVars>>

\* step 9: deleteLocalFile for the next path of diff.toDeleteLocal
DeleteLocal(d) ==
  /\ pc[d] = "deleteLocal"
  /\ vault' = [vault EXCEPT ![d][cyc[d].diff.toDeleteLocal[cyc[d].li]] = NoHash]
  /\ StepCycle(d, [cyc[d] EXCEPT !.li = @ + 1])
  /\ UNCHANGED <<objects, edits, settings, baseManifest, lastEtag, histVars, srvVars>>
  /\ UNCHANGED <<diffVars, queueVars, libVars, appVars>>

\* step 9, when the vault's delete of the file rejects: nothing catches it
DeleteLocalFails(d) ==
  /\ pc[d] = "deleteLocal"
  /\ vault[d][cyc[d].diff.toDeleteLocal[cyc[d].li]] # NoHash
  /\ FailCycle(d, "failed: delete")

\* mutant: the ETag persisted by the last commit is sent
CommitEtagPersisted(d) == lastEtag[d]

\* the etag handed to putManifest: the one step 2 destructured from getManifest
CommitEtag(d) == cyc[d].etag

\* step 10: build the updated manifest and send PUT /manifest
Commit(d) ==
  /\ pc[d] = "commit"
  /\ req[d].stage = "none"
  /\ SendPut(d, IfMatchHeader(CommitEtag(d)),
             updatedManifest(cyc[d].remoteManifest, cyc[d].diff, cyc[d].resolved))
  /\ pc' = [pc EXCEPT ![d] = "await"]
  /\ UNCHANGED <<manifestObj, etagCounter, objects>>
  /\ UNCHANGED <<vault, edits, settings, baseManifest, lastEtag, isSyncing, notice, running,
                 retries, force, cyc, histVars>>
  /\ UNCHANGED <<diffVars, queueVars, libVars, appVars>>

\* mutant: a conflict is retried also the last time
RetryAfterConflictAlways(n) == TRUE

\* sync(), catch: error instanceof ManifestConflictError && retries < MAX_RETRIES - 1
RetryAfterConflict(n) == n < MAX_RETRIES - 1

\* sync(): while (retries < MAX_RETRIES)
LoopAgain(n) == n < MAX_RETRIES

\* the message of the error ApiClient.request throws for a status >= 400
ErrorMessage(status) ==
  IF status = 412 THEN "failed: 412" ELSE IF status = 428 THEN "failed: 428" ELSE "failed: request"

\* the answer to PUT /manifest: step 11 on 200 (the two assignments, then
\* saveSettings, whose saveData may reject), the retry loop of sync() on 412
Receive(d) ==
  /\ pc[d] = "await"
  /\ req[d].stage = "resp"
  /\ req' = [req EXCEPT ![d] = NoRequest]
  /\ IF req[d].status = 200
     THEN /\ baseManifest' = [baseManifest EXCEPT ![d] = req[d].body]
          /\ lastEtag' = [lastEtag EXCEPT ![d] = req[d].etag]
          /\ commitLog' = commitLog \cup {[device |-> d, etag |-> cyc[d].etag]}
          /\ \E saved \in BOOLEAN : EndSync(d, IF saved THEN "complete" ELSE "failed: save")
          /\ UNCHANGED rerunClean
     ELSE IF req[d].status = 412 /\ RetryAfterConflict(retries[d])
     THEN IF LoopAgain(retries[d] + 1)
          THEN /\ retries' = [retries EXCEPT ![d] = @ + 1]
               /\ pc' = [pc EXCEPT ![d] = "scan"]
               /\ cyc' = [cyc EXCEPT ![d] = NoCycle]
               /\ rerunClean' = [rerunClean EXCEPT ![d] = TRUE]
               /\ UNCHANGED <<baseManifest, lastEtag, commitLog, isSyncing, notice, running,
                              force, cycles>>
          ELSE /\ EndSync(d, "complete")
               /\ UNCHANGED <<baseManifest, lastEtag, commitLog, rerunClean>>
     ELSE /\ EndSync(d, ErrorMessage(req[d].status))
          /\ UNCHANGED <<baseManifest, lastEtag, commitLog, rerunClean>>
  /\ UNCHANGED <<manifestObj, etagCounter, objects, vault, edits, settings, behind>>
  /\ UNCHANGED <<diffVars, queueVars, libVars, appVars>>

\* a request of the cycle fails for good (network error, 401, 400, retries exhausted)
RequestFails(d) ==
  /\ pc[d] \in {"fetch", "resolve", "download", "upload", "deleteRemote"}
  /\ FailCycle(d, "failed: request")

\* the user writes or deletes a vault file, at any time
UserWrite(d, p, h) ==
  /\ vault[d][p] # h
  /\ edits < MaxEdits
  /\ edits' = edits + 1
  /\ vault' = [vault EXCEPT ![d][p] = h]
  /\ UNCHANGED <<settings, baseManifest, lastEtag, isSyncing, notice, running, pc, retries,
                 force, cyc, histVars>>
  /\ ServerUnchanged
  /\ UNCHANGED <<diffVars, queueVars, libVars, appVars>>

UserDelete(d, p) ==
  /\ vault[d][p] # NoHash
  /\ edits < MaxEdits
  /\ edits' = edits + 1
  /\ vault' = [vault EXCEPT ![d][p] = NoHash]
  /\ UNCHANGED <<settings, baseManifest, lastEtag, isSyncing, notice, running, pc, retries,
                 force, cyc, histVars>>
  /\ ServerUnchanged
  /\ UNCHANGED <<diffVars, queueVars, libVars, appVars>>

\* ------------------------------------------------ plugin: TransferQueue
\* tasks, numbered in the order enqueue() is called
Tasks == 1..MaxTasks

\* MAX_RETRIES of the shared constants, as the queue imports it
TRANSFER_MAX_RETRIES == 3

RETRY_BACKOFF_MS == 1000

\* a thrown Error object, and a thrown value that is no Error
ErrorOf(message) == [isError |-> TRUE, message |-> message, v |-> 0]
ValueOf(v) == [isError |-> FALSE, message |-> <<>>, v |-> v]

\* no value thrown
NoThrown == [isError |-> FALSE, message |-> <<>>, v |-> 0]

\* what execute() may resolve with, and what it may throw: Error objects and
\* values that are no Error (single digits)
Results == 1..MaxResult
ThrownErrors == {ErrorOf(<<i>>) : i \in 1..MaxThrown}
ThrownValues == {ValueOf(i) : i \in 1..MaxThrown}

\* error instanceof Error
IsError(e) == e.isError

\* String(error), for a thrown single digit
String(e) == <<e.v>>

\* the outcomes of one execute() call
Fulfilled(v) == [ok |-> TRUE, result |-> v, error |-> NoThrown]
Rejected(e) == [ok |-> FALSE, result |-> 0, error |-> e]
NoOutcome == [ok |-> FALSE, result |-> 0, error |-> NoThrown]
Outcomes == {Fulfilled(v) : v \in Results} \cup {Rejected(e) : e \in ThrownErrors \cup ThrownValues}

\* a QueueTask with the position of its promise chain
\*   stage: "new" (not enqueued) | "queued" | "running" (execute() pending)
\*          | "settled" (execute() settled, .then/.catch not yet run)
\*          | "handled" (.finally not yet run) | "waiting" (retry timer set)
\*          | "done"
NewTask ==
  [stage |-> "new", retries |-> 0, execs |-> 0, outcome |-> NoOutcome, delay |-> 0,
   future |-> "pending", value |-> 0, reason |-> NoThrown]

IdleQueue ==
  /\ concurrency = 1
  /\ queue = <<>>
  /\ active = 0
  /\ task = [t \in Tasks |-> NewTask]

\* new TransferQueue(concurrency)
InitQueue ==
  /\ concurrency \in 1..MaxConcurrency
  /\ queue = <<>>
  /\ active = 0
  /\ task = [t \in Tasks |-> NewTask]

\* mutant: one task more than the limit is let through
QueueBusyOffByOne(a, c) == a > c

\* this.active >= this.concurrency
QueueBusy(a, c) == a >= c

\* processNext(), on the queue q, the counter a and the tasks ts
ProcessNext(q, a, ts) ==
  IF QueueBusy(a, concurrency) \/ Len(q) = 0
  THEN [queue |-> q, active |-> a, task |-> ts]
  ELSE [queue |-> Tail(q), active |-> a + 1,
        task |-> [ts EXCEPT ![Head(q)].stage = "running", ![Head(q)].execs = @ + 1]]

\* the queue state becomes r
SetQueue(r) ==
  /\ queue' = r.queue
  /\ active' = r.active
  /\ task' = r.task
  /\ UNCHANGED concurrency

QueueFrame == UNCHANGED <<diffVars, srvVars, objects, devVars, histVars, appVars, libVars>>

\* enqueue(execute): push, then processNext
enqueue(t) ==
  /\ task[t].stage = "new"
  /\ \A u \in Tasks : u < t => task[u].stage # "new"
  /\ SetQueue(ProcessNext(Append(queue, t), active, [task EXCEPT ![t].stage = "queued"]))
  /\ QueueFrame

\* the promise of task.execute() settles
Settle(t, outcome) ==
  /\ task[t].stage = "running"
  /\ task' = [task EXCEPT ![t].stage = "settled", ![t].outcome = outcome]
  /\ UNCHANGED <<concurrency, queue, active>>
  /\ QueueFrame

\* task.retries < MAX_RETRIES, for task.retries = n
CanRetry(n) == n < TRANSFER_MAX_RETRIES

\* mutant: the delay grows linearly
RetryDelayLinear(n) == RETRY_BACKOFF_MS * n

\* RETRY_BACKOFF_MS * Math.pow(2, task.retries - 1), for task.retries = n
RetryDelay(n) == RETRY_BACKOFF_MS * 2 ^ (n - 1)

\* mutant: the thrown value is passed on as it is
RejectionRaw(error) == error

\* error instanceof Error ? error : new Error(String(error))
Rejection(error) == IF IsError(error) THEN error ELSE ErrorOf(String(error))

\* the .then callback (task.resolve) or the .catch callback (retry or reject)
Handle(t) ==
  /\ task[t].stage = "settled"
  /\ task' =
       IF task[t].outcome.ok
       THEN [task EXCEPT ![t].stage = "handled", ![t].future = "resolved",
                         ![t].value = task[t].outcome.result]
       ELSE IF CanRetry(task[t].retries)
       THEN [task EXCEPT ![t].stage = "handled", ![t].retries = @ + 1,
                         ![t].delay = RetryDelay(task[t].retries + 1)]
       ELSE [task EXCEPT ![t].stage = "handled", ![t].future = "rejected",
                         ![t].reason = Rejection(task[t].outcome.error)]
  /\ UNCHANGED <<concurrency, queue, active>>
  /\ QueueFrame

\* whether setTimeout was called for the task's last failure
TimerSet(tk) == tk.future = "pending" /\ ~tk.outcome.ok /\ tk.delay > 0

\* the .finally callback: active--, processNext
Finally(t) ==
  /\ task[t].stage = "handled"
  /\ SetQueue(ProcessNext(queue, active - 1,
                          [task EXCEPT ![t].stage = IF TimerSet(task[t]) THEN "waiting" ELSE "done"]))
  /\ QueueFrame

\* mutant: the retried task goes to the back of the queue
RequeueAtTail(q, t) == Append(q, t)

\* mutant: the retried task is not put back
RequeueDropped(q, t) == q

\* this.queue.unshift(task)
Requeue(q, t) == <<t>> \o q

\* the setTimeout callback: unshift, processNext
RetryTimer(t) ==
  /\ task[t].stage = "waiting"
  /\ SetQueue(ProcessNext(Requeue(queue, t), active,
                          [task EXCEPT ![t].stage = "queued", ![t].delay = 0]))
  /\ QueueFrame

\* ------------------------------------------------ worker: strings
\* A string is the sequence of its characters.  In storage keys and request
\* paths a character may also stand for a whole name (".obsidian-r2-sync",
\* "manifest.json", "a.md", "..") that the code only ever copies.
StringsOver(chars, n) == UNION {[1..k -> chars] : k \in 0..n}

\* s.startsWith(prefix)
StartsWith(s, prefix) == Len(s) >= Len(prefix) /\ SubSeq(s, 1, Len(prefix)) = prefix

\* s.slice(n)
Slice(s, n) == SubSeq(s, n + 1, Len(s))

\* s.indexOf(ch): the 0-based index of the first occurrence, or -1
IndexOf(s, ch) ==
  IF \E i \in DOMAIN s : s[i] = ch
  THEN (CHOOSE i \in DOMAIN s : s[i] = ch /\ \A j \in 1..(i - 1) : s[j] # ch) - 1
  ELSE -1

\* ------------------------------------------------ worker: authMiddleware
TokenChars == {":", "a", "0", "1"}

\* every bearer token a client may send
Tokens == StringsOver(TokenChars, MaxTokenLen)

\* values of env.AUTH_SECRET
Secrets == {<<"a">>, <<"0">>}

BEARER == <<"B", "e", "a", "r", "e", "r", " ">>

\* c.req.header(name) of a header that was not sent
NoHeader == <<"undefined">>

\* encoder.encode: the byte of a character
CharCode(ch) ==
  CASE ch = ":" -> 58 [] ch = "0" -> 48 [] ch = "1" -> 49 [] ch = "a" -> 97 [] OTHER -> 0

RECURSIVE WeightedSum(_, _)
WeightedSum(bytes, i) ==
  IF i > Len(bytes) THEN 0 ELSE i * CharCode(bytes[i]) + WeightedSum(bytes, i + 1)

\* crypto.subtle.sign("HMAC", key, message): a keyed digest of the message,
\* here of one byte whose two hex digits are 0 or 1
HmacSha256(key, message) ==
  LET h == (7 * WeightedSum(key, 1) + WeightedSum(message, 1) + Len(message)) % 4
  IN  <<16 * (h \div 2) + (h % 2)>>

HexDigits == <<"0", "1", "2", "3", "4", "5", "6", "7", "8", "9", "a", "b", "c", "d", "e", "f">>

\* b.toString(16).padStart(2, "0")
ByteToHex(b) == <<HexDigits[(b \div 16) + 1], HexDigits[(b % 16) + 1]>>

RECURSIVE HexOf(_)
\* Array.from(bytes).map(...).join("")
HexOf(bytes) == IF bytes = <<>> THEN <<>> ELSE ByteToHex(Head(bytes)) \o HexOf(Tail(bytes))

HmacHex(secret, deviceId) == HexOf(HmacSha256(secret, deviceId))

\* CloudflareClient.generateToken
generateToken(authSecret, deviceId) == deviceId \o <<":">> \o HmacHex(authSecret, deviceId)

\* mutant: only the first byte is compared
MismatchFirstByte(expectedBytes, providedBytes) == expectedBytes[1] # providedBytes[1]

RECURSIVE BitXor(_, _)
\* a ^ b
BitXor(a, b) ==
  IF a = 0 /\ b = 0 THEN 0 ELSE ((a + b) % 2) + (2 * BitXor(a \div 2, b \div 2))

RECURSIVE BitOr(_, _)
\* a | b
BitOr(a, b) ==
  IF a = 0 /\ b = 0 THEN 0
  ELSE (IF a % 2 = 1 \/ b % 2 = 1 THEN 1 ELSE 0) + (2 * BitOr(a \div 2, b \div 2))

RECURSIVE XorLoop(_, _, _, _)
\* for (let i = 0; i < expectedBytes.length; i++) mismatch |= expected[i] ^ provided[i]
\* from byte i on; r.steps counts the bytes compared
XorLoop(expectedBytes, providedBytes, i, r) ==
  IF i > Len(expectedBytes) THEN r
  ELSE XorLoop(expectedBytes, providedBytes, i + 1,
               [mismatch |-> BitOr(r.mismatch,
                                   BitXor(CharCode(expectedBytes[i]), CharCode(providedBytes[i]))),
                steps |-> r.steps + 1])

\* mutant: the loop is left at the first byte that differs
CompareBytesEarlyExit(expectedBytes, providedBytes) ==
  LET differ == {i \in DOMAIN expectedBytes : expectedBytes[i] # providedBytes[i]}
      first == CHOOSE i \in differ : \A j \in differ : i <= j
  IN  IF differ = {} THEN [mismatch |-> 0, steps |-> Len(expectedBytes)]
      ELSE [mismatch |-> 1, steps |-> first]

\* let mismatch = 0, and the loop
CompareBytes(expectedBytes, providedBytes) ==
  XorLoop(expectedBytes, providedBytes, 1, [mismatch |-> 0, steps |-> 0])

\* mismatch !== 0, after the loop over strings of equal length
Mismatch(expectedBytes, providedBytes) ==
  CompareBytes(expectedBytes, providedBytes).mismatch # 0

\* compared: how many byte positions the middleware compared
Unauthorized == [status |-> 401, deviceId |-> <<>>, compared |-> 0]

\* authMiddleware: 401, or next() with the device id (status 0)
authMiddleware(authHeader, secret) ==
  IF ~StartsWith(authHeader, BEARER) THEN Unauthorized
  ELSE LET token == Slice(authHeader, 7)
           colonIndex == IndexOf(token, ":")
       IN  IF colonIndex = -1 THEN Unauthorized
           ELSE LET deviceId == SubSeq(token, 1, colonIndex)
                    providedHmac == Slice(token, colonIndex + 1)
                    expectedHmac == HmacHex(secret, deviceId)
                    compared == CompareBytes(expectedHmac, providedHmac).steps
                IN  IF Len(expectedHmac) # Len(providedHmac) THEN Unauthorized
                    ELSE IF Mismatch(expectedHmac, providedHmac)
                    THEN [Unauthorized EXCEPT !.compared = compared]
                    ELSE [status |-> 0, deviceId |-> deviceId, compared |-> compared]

\* ------------------------------------------------ worker: file routes
MANIFEST_KEY == <<".obsidian-r2-sync", "/", "manifest.json">>

FILES_PREFIX == <<"vault", "/">>

\* const bucketName of generatePresignedUrl
BUCKET_NAME == "obsidian-vault-sync"

\* the characters of the paths a client may send
PathChars == {"/", "\\", "..", ".obsidian-r2-sync", "manifest.json", "a.md"}

PathStrings == StringsOver(PathChars, MaxPathLen)

\* the URL parser takes "/" and, in an https URL, "\" as segment separators
IsSeparator(ch) == ch = "/" \/ ch = "\\"

RECURSIVE SplitSegments(_, _)
\* the segments of a URL path; cur is the segment being read
SplitSegments(str, cur) ==
  IF str = <<>> THEN <<cur>>
  ELSE IF IsSeparator(Head(str)) THEN <<cur>> \o SplitSegments(Tail(str), <<>>)
  ELSE SplitSegments(Tail(str), Append(cur, Head(str)))

RECURSIVE RemoveDotSegments(_, _)
\* the URL parser's path state: a ".." segment drops the segment before it
RemoveDotSegments(segs, out) ==
  IF segs = <<>> THEN out
  ELSE IF Head(segs) = <<"..">>
       THEN RemoveDotSegments(Tail(segs),
                              IF out = <<>> THEN out ELSE SubSeq(out, 1, Len(out) - 1))
       ELSE RemoveDotSegments(Tail(segs), Append(out, Head(segs)))

RECURSIVE JoinSegments(_)
JoinSegments(segs) ==
  IF segs = <<>> THEN <<>>
  ELSE IF Len(segs) = 1 THEN Head(segs)
  ELSE Head(segs) \o <<"/">> \o JoinSegments(Tail(segs))

NoUrl == [method |-> "none", bucket |-> <<>>, key |-> <<>>]

\* generatePresignedUrl: new Request(`https://.../${bucketName}/${key}`) parses
\* the endpoint, and the signed URL addresses the bucket and key of the parsed path
generatePresignedUrl(key, method) ==
  LET segs == RemoveDotSegments(<<<<BUCKET_NAME>>>> \o SplitSegments(key, <<>>), <<>>)
  IN  [method |-> method,
       bucket |-> IF segs = <<>> THEN <<>> ELSE Head(segs),
       key |-> IF segs = <<>> THEN <<>> ELSE JoinSegments(Tail(segs))]

\* `${FILES_PREFIX}${path}`
R2KeyOf(path) == FILES_PREFIX \o path

RECURSIVE KeysOf(_)
\* paths.map((p) => `${FILES_PREFIX}${p}`), as the set BUCKET.delete removes
KeysOf(paths) == IF paths = <<>> THEN {} ELSE {R2KeyOf(Head(paths))} \cup KeysOf(Tail(paths))

\* ------------------------------------------------ worker: app.fetch
NoResponse == [status |-> 0, handler |-> "none", url |-> NoUrl, deleted |-> 0, compared |-> 0]

Response(status, handler) ==
  [status |-> status, handler |-> handler, url |-> NoUrl, deleted |-> 0, compared |-> 0]

\* a request: method and route, the Authorization and If-Match headers, and the
\* fields of the JSON body the routes read
Request(method, route, authorization, ifMatch, manifest, path, paths) ==
  [method |-> method, route |-> route, authorization |-> authorization, ifMatch |-> ifMatch,
   manifest |-> manifest, path |-> path, paths |-> paths]

IdleRequest == Request("GET", "/health", NoHeader, NoString, SyncManifest(EmptyFiles), <<>>, <<>>)

\* the worker at rest, for the specifications that send it no request
IdleApp ==
  /\ env = [AUTH_SECRET |-> <<"a">>]
  /\ appReq = IdleRequest
  /\ appRes = Response(200, "health")
  /\ r2 = {}

\* POST /files/upload-url and POST /files/download-url
PresignRoute(path, method) ==
  IF path = <<>>
  THEN Response(400, "files")
  ELSE [Response(200, "files") EXCEPT !.url = generatePresignedUrl(R2KeyOf(path), method)]

\* app.route("/health", healthRoutes) precedes app.use("*", authMiddleware)
IsPublic(request) == request.route = "/health" /\ request.method = "GET"

\* app.fetch(request): the middleware chain and the route handler.  PUT
\* /manifest is handed to the manifest route, which answers in its own steps.
AppFetch ==
  /\ appRes = NoResponse
  /\ LET auth == authMiddleware(appReq.authorization, env.AUTH_SECRET)
         ep == <<appReq.method, appReq.route>>
         Answer(res) == appRes' = [res EXCEPT !.compared = auth.compared]
     IN  IF IsPublic(appReq)
         THEN appRes' = Response(200, "health") /\ UNCHANGED <<req, r2>>
         ELSE IF auth.status = 401
         THEN Answer(Response(401, "none")) /\ UNCHANGED <<req, r2>>
         ELSE CASE ep = <<"GET", "/manifest">> ->
                     Answer(Response(200, "manifest")) /\ UNCHANGED <<req, r2>>
                [] ep = <<"PUT", "/manifest">> ->
                     /\ Answer(Response(0, "manifest"))
                     /\ SendPut(1, appReq.ifMatch, appReq.manifest)
                     /\ UNCHANGED r2
                [] ep = <<"POST", "/files/upload-url">> ->
                     Answer(PresignRoute(appReq.path, "PUT")) /\ UNCHANGED <<req, r2>>
                [] ep = <<"POST", "/files/download-url">> ->
                     Answer(PresignRoute(appReq.path, "GET")) /\ UNCHANGED <<req, r2>>
                [] ep = <<"POST", "/files/delete">> ->
                     IF Len(appReq.paths) = 0
                     THEN Answer(Response(400, "files")) /\ UNCHANGED <<req, r2>>
                     ELSE /\ r2' = r2 \ KeysOf(appReq.paths)
                          /\ Answer([Response(200, "files") EXCEPT !.deleted = Len(appReq.paths)])
                          /\ UNCHANGED req
                [] OTHER -> Answer(Response(404, "none")) /\ UNCHANGED <<req, r2>>
  /\ UNCHANGED <<manifestObj, etagCounter, objects, env, appReq>>
  /\ UNCHANGED <<diffVars, devVars, histVars, queueVars, libVars>>

\* a client uploads through the presigned PUT URL it was given: the object
\* store writes the object the URL addresses
PresignedPut ==
  /\ appRes.status = 200 /\ appRes.url.method = "PUT"
  /\ etagCounter < MaxEtag
  /\ IF appRes.url.bucket # <<BUCKET_NAME>>
     THEN UNCHANGED <<manifestObj, etagCounter, r2>>
     ELSE IF appRes.url.key = MANIFEST_KEY
     THEN /\ manifestObj' = StoredObject(SyncManifest(EmptyFiles), generateEtag(etagCounter))
          /\ etagCounter' = etagCounter + 1
          /\ UNCHANGED r2
     ELSE /\ r2' = r2 \cup {appRes.url.key}
          /\ UNCHANGED <<manifestObj, etagCounter>>
  /\ UNCHANGED <<req, objects, env, appReq, appRes>>
  /\ UNCHANGED <<diffVars, devVars, histVars, queueVars, libVars>>

\* the bucket the worker's requests meet: a manifest and one vault file
InitAppBucket ==
  /\ manifestObj = StoredObject(SyncManifest(EmptyFiles), generateEtag(0))
  /\ etagCounter = 1
  /\ req = [c \in Clients |-> NoRequest]
  /\ objects = [p \in VaultPaths |-> NoHash]
  /\ r2 = {R2KeyOf(<<"a.md">>)}

Endpoints ==
  {<<"GET", "/health">>, <<"GET", "/manifest">>, <<"PUT", "/manifest">>,
   <<"POST", "/files/upload-url">>, <<"POST", "/files/download-url">>,
   <<"POST", "/files/delete">>}

\* Authorization headers: none, every token under the Bearer scheme, and every
\* token bare, under another scheme and under a lower-case scheme name
Authorizations ==
  {NoHeader} \cup {BEARER \o t : t \in Tokens}
    \cup {t : t \in StringsOver(TokenChars, SchemeTokenLen)}
    \cup {<<"B", "a", "s", "i", "c", " ">> \o t : t \in StringsOver(TokenChars, SchemeTokenLen)}
    \cup {<<"b", "e", "a", "r", "e", "r", " ">> \o t : t \in StringsOver(TokenChars, SchemeTokenLen)}

InitAuth ==
  /\ IdleDiffArgs /\ IdleDevices /\ IdleQueue /\ InitAppBucket /\ IdleLib
  /\ env \in [AUTH_SECRET : Secrets]
  /\ \E ep \in Endpoints, authorization \in Authorizations :
       appReq = Request(ep[1], ep[2], authorization, HttpEtagOf(generateEtag(0)),
                        SyncManifest(EmptyFiles), <<"a.md">>, <<<<"a.md">>>>)
  /\ appRes = NoResponse

NextAuth == AppFetch \/ SrvHead(1) \/ SrvPut(1)

SpecAuth == InitAuth /\ [][NextAuth]_vars

\* a request to a file route, with the token of device "a"
FileRequest(route, path, paths) ==
  Request("POST", route, BEARER \o generateToken(<<"a">>, <<"a">>), NoString,
          SyncManifest(EmptyFiles), path, paths)

\* the file routes, called with a valid token and any path or array of paths
InitFiles ==
  /\ IdleDiffArgs /\ IdleDevices /\ IdleQueue /\ InitAppBucket /\ IdleLib
  /\ env = [AUTH_SECRET |-> <<"a">>]
  /\ \/ \E route \in {"/files/upload-url", "/files/download-url"}, path \in PathStrings :
          appReq = FileRequest(route, path, <<>>)
     \/ \E paths \in StringsOver(StringsOver(PathChars, MaxBulkPathLen), MaxBulk) :
          appReq = FileRequest("/files/delete", <<>>, paths)
  /\ appRes = NoResponse

NextFiles == AppFetch \/ PresignedPut

SpecFiles == InitFiles /\ [][NextFiles]_vars

\* ------------------------------------------------ plugin: steps 6 and 7 through the queue
\* MAX_CONCURRENT_TRANSFERS of the shared constants, the default limit of the
\* queue the engine constructs
MAX_CONCURRENT_TRANSFERS == 5

\* the device whose engine owns the queue
Owner == 1

\* the token in the plugin's settings, generated for device "a" under secret "a"
PluginToken == generateToken(<<"a">>, <<"a">>)

\* the secret the rotate-secret command installs on the worker
RotatedSecret == <<"0">>

\* the status authMiddleware leaves a request of the plugin's ApiClient with
ApiStatus(secret) ==
  IF authMiddleware(BEARER \o PluginToken, secret).status = 401 THEN 401 ELSE 200

Authorized == ApiStatus(env.AUTH_SECRET) = 200

\* a QueueTask whose execute is () => this.downloadFile(entry) or
\* () => this.uploadFile(entry)
\*   step: "start" | "fetch" (the call has its presigned URL)
\*   requests, denied: history: the download-url/upload-url requests it made,
\*   and whether one of them was answered 401
TransferTask(kind, entry) ==
  [stage |-> "new", retries |-> 0, execs |-> 0, outcome |-> NoOutcome, delay |-> 0,
   future |-> "pending", value |-> 0, reason |-> NoThrown,
   kind |-> kind, entry |-> entry, step |-> "start", requests |-> 0, denied |-> FALSE]

NoTransfer == TransferTask("none", FileEntry(0, NoHash))

\* the first task record no enqueue() call has used
NextTaskId(ts) ==
  CHOOSE t \in Tasks : ts[t].stage = "new" /\ \A u \in Tasks : u < t => ts[u].stage # "new"

RECURSIVE EnqueueEach(_, _, _)
\* entries.map((entry) => this.transferQueue.enqueue(() => transfer(entry)))
EnqueueEach(r, kind, entries) ==
  IF entries = <<>> THEN r
  ELSE LET t == NextTaskId(r.task)
           pushed == [r.task EXCEPT ![t] = [TransferTask(kind, Head(entries)) EXCEPT !.stage = "queued"]]
       IN  EnqueueEach(ProcessNext(Append(r.queue, t), r.active, pushed), kind, Tail(entries))

\* steps 6 and 7, up to the await: every entry is enqueued
EnqueueTransfers(d) ==
  /\ pc[d] \in {"download", "upload"}
  /\ cyc[d].awaited = {}
  /\ LET entries == IF pc[d] = "download" THEN cyc[d].diff.toDownload ELSE cyc[d].diff.toUpload
         r == EnqueueEach([queue |-> queue, active |-> active, task |-> task], pc[d], entries)
     IN  /\ SetQueue(r)
         /\ cyc' = [cyc EXCEPT ![d].awaited =
                                 {t \in Tasks : task[t].stage = "new" /\ r.task[t].stage # "new"}]
  /\ UNCHANGED <<vault, edits, settings, baseManifest, lastEtag, isSyncing, notice, running, pc,
                 retries, force, histVars>>
  /\ ServerUnchanged
  /\ UNCHANGED <<diffVars, appVars, libVars>>

\* execute() settles with the outcome
Settled(tk, outcome) == [tk EXCEPT !.stage = "settled", !.outcome = outcome, !.step = "start"]

TransferFrame ==
  UNCHANGED <<diffVars, srvVars, edits, settings, baseManifest, lastEtag, isSyncing, notice,
              running, pc, retries, force, cyc, histVars, appVars, libVars,
              concurrency, queue, active>>

\* downloadFile or uploadFile, up to the answer to its download-url or
\* upload-url request; uploadFile first looks the file up in the vault
RequestUrl(t) ==
  /\ task[t].stage = "running"
  /\ task[t].step = "start"
  /\ task' =
       IF task[t].kind = "upload" /\ ~uploadFileFound(Owner, task[t].entry)
       THEN [task EXCEPT ![t] = Settled(task[t], Rejected(ErrorOf(<<"failed: File not found">>)))]
       ELSE IF ApiStatus(env.AUTH_SECRET) = 401
       THEN [task EXCEPT ![t] = [Settled(task[t], Rejected(ErrorOf(<<"failed: 401">>)))
                                   EXCEPT !.requests = @ + 1, !.denied = TRUE]]
       ELSE [task EXCEPT ![t].step = "fetch", ![t].requests = @ + 1]
  /\ UNCHANGED <<vault, objects>>
  /\ TransferFrame

\* the fetch of the presigned URL (ok: the transport delivers it), and for a
\* download the write to the vault
TransferFetch(t, ok) ==
  /\ task[t].stage = "running"
  /\ task[t].step = "fetch"
  /\ LET entry == task[t].entry
     IN  IF task[t].kind = "download"
         THEN IF ok /\ downloadFileOk(entry)
              THEN /\ downloadFileWrite(Owner, entry)
                   /\ task' = [task EXCEPT ![t] = Settled(task[t], Fulfilled(0))]
                   /\ UNCHANGED objects
              ELSE /\ task' = [task EXCEPT ![t] =
                                 Settled(task[t], Rejected(ErrorOf(<<"failed: Failed to download">>)))]
                   /\ UNCHANGED <<vault, objects>>
         ELSE IF ok
              THEN /\ uploadFilePut(Owner, entry)
                   /\ task' = [task EXCEPT ![t] = Settled(task[t], Fulfilled(0))]
                   /\ UNCHANGED vault
              ELSE /\ task' = [task EXCEPT ![t] =
                                 Settled(task[t], Rejected(ErrorOf(<<"failed: Failed to upload">>)))]
                   /\ UNCHANGED <<vault, objects>>
  /\ TransferFrame

\* await Promise.all(promises): it rejects after the .finally callback of the
\* first rejected task, and resolves when every task has resolved
AwaitTransfers(d) ==
  /\ pc[d] \in {"download", "upload"}
  /\ cyc[d].awaited # {}
  /\ \/ \E t \in cyc[d].awaited :
          /\ task[t].future = "rejected" /\ task[t].stage = "done"
          /\ FailCycle(d, task[t].reason.message[1])
     \/ /\ \A t \in cyc[d].awaited : task[t].future = "resolved" /\ task[t].stage = "done"
        /\ StepCycle(d, [cyc[d] EXCEPT !.pendingDown = IF pc[d] = "download" THEN {} ELSE @,
                                       !.pendingUp = IF pc[d] = "upload" THEN {} ELSE @,
                                       !.awaited = {}])
        /\ UNCHANGED <<vault, edits, settings, baseManifest, lastEtag, histVars>>
        /\ ServerUnchanged
        /\ UNCHANGED <<diffVars, queueVars, appVars, libVars>>

\* a request of the engine itself (GET or PUT /manifest, the URL request of a
\* conflict resolution, delete) is answered 401: ApiClient.request throws
ApiDenied(d) ==
  /\ pc[d] \in {"fetch", "resolve", "deleteRemote", "commit"}
  /\ ApiStatus(env.AUTH_SECRET) = 401
  /\ FailCycle(d, "failed: 401")

\* step 5, when the presigned fetch of the uploadFile or downloadFile that
\* applyConflictResolution awaits fails in transport: the error leaves
\* resolveConflicts and the cycle
ResolveTransferFails(d) ==
  /\ pc[d] = "resolve"
  /\ Authorized
  /\ FailCycle(d, IF settings[d].conflictStrategy = "keep-local"
                  THEN "failed: Failed to upload" ELSE "failed: Failed to download")

\* the rotate-secret command replaces AUTH_SECRET on the worker
rotateSecret ==
  /\ env.AUTH_SECRET # RotatedSecret
  /\ env' = [env EXCEPT !.AUTH_SECRET = RotatedSecret]
  /\ UNCHANGED <<appReq, appRes, r2>>
  /\ UNCHANGED <<diffVars, srvVars, objects, devVars, histVars, queueVars, libVars>>

\* ------------------------------------------------ shared: applyDiffToManifest
\* Objects live in a heap: heap[a] is the files object at address a, and a
\* manifest refers to its files object by address.

\* mutant: const files = base.files (the input's object itself)
AliasFiles(h, a) == [heap |-> h, addr |-> a]

\* const files = { ...base.files }: a new object with the same properties
SpreadFiles(h, a) == [heap |-> Append(h, h[a]), addr |-> Len(h) + 1]

RECURSIVE StoreAll(_, _, _)
\* for (const entry of entries) files[entry.path] = entry
StoreAll(h, a, entries) ==
  IF entries = <<>> THEN h
  ELSE StoreAll([h EXCEPT ![a] = With(@, Head(entries).path, Head(entries))], a, Tail(entries))

RECURSIVE DeleteAll(_, _, _)
\* for (const path of paths) delete files[path]
DeleteAll(h, a, paths) ==
  IF paths = <<>> THEN h
  ELSE DeleteAll([h EXCEPT ![a] = Without(@, Head(paths))], a, Tail(paths))

\* applyDiffToManifest(base, diff, deviceId): the heap after the call and the
\* address of the returned manifest's files
applyDiffToManifest(h, base, diff) ==
  LET files == SpreadFiles(h, base)
      uploaded == StoreAll(files.heap, files.addr, diff.toUpload)
      downloaded == StoreAll(uploaded, files.addr, diff.toDownload)
      deletedRemote == DeleteAll(downloaded, files.addr, diff.toDeleteRemote)
      deletedLocal == DeleteAll(deletedRemote, files.addr, diff.toDeleteLocal)
  IN  [heap |-> deletedLocal, files |-> files.addr]

\* what a diff does with one path
ApplyRoles ==
  {[bucket |-> "none", hash |-> NoHash], [bucket |-> "toDeleteRemote", hash |-> NoHash],
   [bucket |-> "toDeleteLocal", hash |-> NoHash]}
    \cup [bucket : {"toUpload", "toDownload"}, hash : Hashes]

\* the paths with a role in the bucket, in ascending order
PathsIn(roles, bucket) == SortedKeys({p \in Paths : roles[p].bucket = bucket})

EntriesIn(roles, bucket) ==
  [i \in DOMAIN PathsIn(roles, bucket) |->
     FileEntry(PathsIn(roles, bucket)[i], roles[PathsIn(roles, bucket)[i]].hash)]

\* the DiffResult that gives every path its role
DiffOfRoles(roles) ==
  [toUpload |-> EntriesIn(roles, "toUpload"), toDownload |-> EntriesIn(roles, "toDownload"),
   toDeleteRemote |-> PathsIn(roles, "toDeleteRemote"),
   toDeleteLocal |-> PathsIn(roles, "toDeleteLocal"), conflicts |-> <<>>]

\* a call with any manifest and any diff
InitApplyArgs ==
  \E files \in FilesOver(Paths, Hashes), roles \in [Paths -> ApplyRoles] :
    /\ heap = <<files>>
    /\ apply = [phase |-> "called", base |-> 1, diff |-> DiffOfRoles(roles), result |-> 0,
                before |-> files]
  
CallApply ==
  /\ apply.phase = "called"
  /\ LET r == applyDiffToManifest(heap, apply.base, apply.diff)
     IN  /\ heap' = r.heap
         /\ apply' = [apply EXCEPT !.phase = "returned", !.result = r.files]
  /\ UNCHANGED <<diffVars, srvVars, objects, devVars, histVars, queueVars, appVars, modal, asked>>

\* ------------------------------------------------ plugin: ConflictModal
\* new ConflictModal(...): resolved = false; calls are the values handed to
\* the promise's resolve function, input is what the user did
NewModal == [stage |-> "open", resolved |-> FALSE, calls |-> <<>>, input |-> "none"]

NoModal == [stage |-> "none", resolved |-> FALSE, calls |-> <<>>, input |-> "none"]

\* mutant: onClose resolves whatever the flag says
UnresolvedAlways(m) == TRUE

\* if (!this.resolved)
Unresolved(m) == ~m.resolved

\* onClose(): the default for a modal closed without a choice
onClose(m) ==
  IF Unresolved(m)
    THEN [m EXCEPT !.stage = "closed", !.resolved = TRUE, !.calls = Append(@, "keep-local")]
    ELSE [m EXCEPT !.stage = "closed"]

\* a button's click handler: resolved = true; resolvePromise(value); close()
onClick(m, value) == onClose([m EXCEPT !.resolved = TRUE, !.calls = Append(@, value)])

ModalFrame == UNCHANGED <<diffVars, srvVars, objects, devVars, histVars, queueVars, appVars, heap, apply>>

\* askUserForResolution(conflict): a new modal, waitForResolution() opens it
waitForResolution ==
  /\ modal.stage = "none"
  /\ Len(asked) < MaxPrompts
  /\ modal' = NewModal
  /\ UNCHANGED asked
  /\ ModalFrame

\* the user clicks Keep Local, Keep Remote or Auto-merge
Click(value) ==
  /\ modal.stage = "open"
  /\ modal' = onClick([modal EXCEPT !.input = value], value)
  /\ UNCHANGED asked
  /\ ModalFrame

\* the user closes the modal (Escape, click outside): close() runs onClose()
Dismiss ==
  /\ modal.stage = "open"
  /\ modal' = onClose([modal EXCEPT !.input = "dismiss"])
  /\ UNCHANGED asked
  /\ ModalFrame

\* resolution = await this.askUserForResolution(conflict): the promise settled
\* with the first value handed to resolve
Resume ==
  /\ modal.stage = "closed"
  /\ asked' = Append(asked, Head(modal.calls))
  /\ modal' = NoModal
  /\ ModalFrame

\* ------------------------------------------------ the specifications
InitQueueSpec == IdleDiffArgs /\ InitBucket /\ IdleDevices /\ InitQueue /\ IdleApp /\ IdleLib

NextQueue ==
  \E t \in Tasks :
    \/ enqueue(t)
    \/ \E outcome \in Outcomes : Settle(t, outcome)
    \/ Handle(t)
    \/ Finally(t)
    \/ RetryTimer(t)

SpecQueue == InitQueueSpec /\ [][NextQueue]_vars

\* the queue when only success and failure of execute() are told apart: one
\* result and one thrown Error
LiveOutcomes == {Fulfilled(1), Rejected(ErrorOf(<<1>>))}

NextQueueLive ==
  \E t \in Tasks :
    \/ enqueue(t)
    \/ \E outcome \in LiveOutcomes : Settle(t, outcome)
    \/ Handle(t)
    \/ Finally(t)
    \/ RetryTimer(t)

\* every execute() call settles, every callback of a settled promise runs and
\* every retry timer fires
QueueFairness ==
  \A t \in Tasks :
    /\ WF_vars(\E outcome \in LiveOutcomes : Settle(t, outcome))
    /\ WF_vars(Handle(t))
    /\ WF_vars(Finally(t))
    /\ WF_vars(RetryTimer(t))

SpecQueueLive == InitQueueSpec /\ [][NextQueueLive]_vars /\ QueueFairness

Init == IdleDiffArgs /\ InitBucket /\ InitDevices /\ IdleQueue /\ IdleApp /\ IdleLib

Next ==
  \E d \in Devices :
    \/ \E f \in BOOLEAN : triggerSync(d, f)
    \/ Scan(d)
    \/ Fetch(d)
    \/ Resolve(d)
    \/ Download(d)
    \/ Upload(d)
    \/ DeleteRemote(d)
    \/ DeleteLocal(d)
    \/ Commit(d)
    \/ SrvHead(d)
    \/ SrvPut(d)
    \/ Receive(d)
    \/ RequestFails(d)
    \/ \E p \in VaultPaths, h \in VaultHashes : UserWrite(d, p, h)
    \/ \E p \in VaultPaths : UserDelete(d, p)

Spec == Init /\ [][Next]_vars

\* the first sync of a device: any vault, any manifest on the server with its
\* objects, the plugin's token valid
InitTransfer ==
  /\ IdleDiffArgs
  /\ \E m \in ManifestsOver(Paths, VaultHashes) \cup {Null} :
        /\ manifestObj = IF m = Null THEN Null ELSE StoredObject(m, generateEtag(0))
        /\ etagCounter = IF m = Null THEN 0 ELSE 1
        /\ objects = [p \in Paths |-> HashOrNone(m, p)]
  /\ req = [c \in Clients |-> NoRequest]
  /\ vault \in {v \in [Devices -> [Paths -> VaultHashes \cup {NoHash}]] :
                  \A d \in Devices \ {Owner} : \A p \in Paths : v[d][p] = NoHash}
  /\ edits = 0
  /\ settings \in {st \in [Devices -> [conflictStrategy : ConflictStrategies,
                                        excludePatterns : {{}}]] :
                     \A d \in Devices \ {Owner} : st[d].conflictStrategy = "keep-local"}
  /\ baseManifest = [d \in Devices |-> Null]
  /\ lastEtag = [d \in Devices |-> NoString]
  /\ isSyncing = [d \in Devices |-> FALSE]
  /\ notice = [d \in Devices |-> "none"]
  /\ running = [d \in Devices |-> 0]
  /\ pc = [d \in Devices |-> "idle"]
  /\ retries = [d \in Devices |-> 0]
  /\ force = [d \in Devices |-> FALSE]
  /\ cyc = [d \in Devices |-> NoCycle]
  /\ commitLog = {}
  /\ behind = [d \in Devices |-> FALSE]
  /\ rerunClean = [d \in Devices |-> FALSE]
  /\ cycles = [d \in Devices |-> 0]
  /\ concurrency = MAX_CONCURRENT_TRANSFERS
  /\ queue = <<>>
  /\ active = 0
  /\ task = [t \in Tasks |-> NoTransfer]
  /\ IdleApp
  /\ IdleLib

\* a sync starts while there are task records for the transfers it may enqueue
StartSync(d) ==
  /\ Cardinality({t \in Tasks : task[t].stage = "new"}) >= Cardinality(Paths)
  /\ triggerSync(d, FALSE)

NextTransfer ==
  \/ StartSync(Owner)
  \/ Scan(Owner)
  \/ Authorized /\ Fetch(Owner)
  \/ Authorized /\ Resolve(Owner)
  \/ ResolveTransferFails(Owner)
  \/ EnqueueTransfers(Owner)
  \/ \E t \in Tasks : RequestUrl(t)
  \/ \E t \in Tasks, ok \in BOOLEAN : TransferFetch(t, ok)
  \/ \E t \in Tasks : Handle(t)
  \/ \E t \in Tasks : Finally(t)
  \/ \E t \in Tasks : RetryTimer(t)
  \/ AwaitTransfers(Owner)
  \/ Authorized /\ Commit(Owner)
  \/ SrvHead(Owner)
  \/ SrvPut(Owner)
  \/ Receive(Owner)
  \/ ApiDenied(Owner)
  \/ rotateSecret

SpecTransfer == InitTransfer /\ [][NextTransfer]_vars

InitApply ==
  /\ IdleDiffArgs /\ InitBucket /\ IdleDevices /\ IdleQueue /\ IdleApp
  /\ InitApplyArgs
  /\ modal = [stage |-> "none"]
  /\ asked = <<>>

NextApply == CallApply

SpecApply == InitApply /\ [][NextApply]_vars

InitModal ==
  /\ IdleDiffArgs /\ InitBucket /\ IdleDevices /\ IdleQueue /\ IdleApp
  /\ heap = <<>>
  /\ apply = [phase |-> "idle"]
  /\ modal = NoModal
  /\ asked = <<>>

NextModal ==
  \/ waitForResolution
  \/ \E value \in ConflictResolutions : Click(value)
  \/ Dismiss
  \/ Resume

SpecModal == InitModal /\ [][NextModal]_vars

InitDiff == InitDiffArgs /\ InitBucket /\ IdleDevices /\ IdleQueue /\ IdleApp /\ IdleLib

NextDiff == CallDiff

SpecDiff == InitDiff /\ [][NextDiff]_vars

InitService == IdleDiffArgs /\ InitBucket /\ IdleDevices /\ IdleQueue /\ IdleApp /\ IdleLib

NextService ==
  \E c \in Clients : RawSend(c) \/ SrvHead(c) \/ SrvPut(c) \/ RawReceive(c)

SpecService == InitService /\ [][NextService]_vars

\* ------------------------------------------------ one device's cycle start
\* A device starting a cycle against any server manifest and any persisted
\* base: the other device has committed the server manifest, and the exclude
\* patterns may have been edited since this device's last sync.
InitExclude ==
  /\ IdleDiffArgs
  /\ \E m \in ManifestsOver(VaultPaths, VaultHashes) \cup {Null} :
        /\ manifestObj = IF m = Null THEN Null ELSE StoredObject(m, generateEtag(0))
        /\ etagCounter = IF m = Null THEN 0 ELSE 1
        /\ objects = [p \in VaultPaths |-> HashOrNone(m, p)]
  /\ req = [c \in Clients |-> NoRequest]
  /\ vault \in {v \in [Devices -> [VaultPaths -> VaultHashes \cup {NoHash}]] :
                  \A p \in VaultPaths : v[2][p] = NoHash}
  /\ edits = 0
  /\ settings \in {st \in [Devices -> [conflictStrategy : {"keep-local"},
                                        excludePatterns : SUBSET (SUBSET VaultPaths \ {{}})]] :
                     st[2].excludePatterns = {}}
  /\ baseManifest \in {b \in [Devices -> ManifestsOver(VaultPaths, VaultHashes) \cup {Null}] :
                         b[2] = Null}
  /\ lastEtag = [d \in Devices |-> NoString]
  /\ isSyncing = [d \in Devices |-> FALSE]
  /\ notice = [d \in Devices |-> "none"]
  /\ running = [d \in Devices |-> 0]
  /\ pc = [d \in Devices |-> "idle"]
  /\ retries = [d \in Devices |-> 0]
  /\ force = [d \in Devices |-> FALSE]
  /\ cyc = [d \in Devices |-> NoCycle]
  /\ commitLog = {}
  /\ behind = [d \in Devices |-> FALSE]
  /\ rerunClean = [d \in Devices |-> FALSE]
  /\ cycles = [d \in Devices |-> 0]
  /\ IdleQueue
  /\ IdleApp
  /\ IdleLib

NextExclude ==
  \/ \E forceFullSync \in BOOLEAN : triggerSync(1, forceFullSync)
  \/ Scan(1)
  \/ Fetch(1)

SpecExclude == InitExclude /\ [][NextExclude]_vars

\* ------------------------------------------------ one device's sync() calls
\* Device 1 syncing from any persisted base against any server manifest whose
\* objects are in place, while client 2 commits manifests of its own, each
\* with the tag GET /manifest has just given it.  The manifest found at the
\* start was stored before the bucket's counter was started: its tag is none
\* the counter will issue.
EarlierEtag == <<MaxEtag + 1>>

\* the If-Match a client sends that has just read the manifest
FreshIfMatch == {IfMatchHeader(GetManifestResponse(manifestObj).etag)}

InitCycle ==
  /\ IdleDiffArgs
  /\ \E m \in ManifestsOver(VaultPaths, VaultHashes) \cup {Null},
        b \in ManifestsOver(VaultPaths, VaultHashes) \cup {Null} :
        /\ b # Null => m # Null
        /\ manifestObj = IF m = Null THEN Null ELSE StoredObject(m, EarlierEtag)
        /\ etagCounter = 0
        /\ objects = [p \in VaultPaths |-> HashOrNone(m, p)]
        /\ baseManifest = [d \in Devices |-> IF d = 1 THEN b ELSE Null]
        /\ lastEtag = [d \in Devices |->
                         IF d = 1 /\ b # Null THEN HttpEtagOf(EarlierEtag) ELSE NoString]
  /\ req = [c \in Clients |-> NoRequest]
  /\ vault \in {v \in [Devices -> [VaultPaths -> VaultHashes \cup {NoHash}]] :
                  \A p \in VaultPaths : v[2][p] = NoHash}
  /\ edits = 0
  /\ settings \in {st \in [Devices -> [conflictStrategy : ConflictStrategies,
                                        excludePatterns : {{}}]] :
                     st[2].conflictStrategy = "keep-local"}
  /\ isSyncing = [d \in Devices |-> FALSE]
  /\ notice = [d \in Devices |-> "none"]
  /\ running = [d \in Devices |-> 0]
  /\ pc = [d \in Devices |-> "idle"]
  /\ retries = [d \in Devices |-> 0]
  /\ force = [d \in Devices |-> FALSE]
  /\ cyc = [d \in Devices |-> NoCycle]
  /\ commitLog = {}
  /\ behind = [d \in Devices |-> FALSE]
  /\ rerunClean = [d \in Devices |-> FALSE]
  /\ cycles = [d \in Devices |-> 0]
  /\ IdleQueue
  /\ IdleApp
  /\ IdleLib

NextCycle ==
  \/ \E forceFullSync \in BOOLEAN : triggerSync(1, forceFullSync)
  \/ Scan(1)
  \/ Fetch(1)
  \/ Resolve(1)
  \/ Download(1)
  \/ Upload(1)
  \/ DeleteRemote(1)
  \/ DeleteLocal(1)
  \/ Commit(1)
  \/ \E c \in Clients : SrvHead(c) \/ SrvPut(c)
  \/ Receive(1)
  \/ RequestFails(1)
  \/ RawSendOf(2, FreshIfMatch, ServiceBodies)
  \/ RawReceive(2)

SpecCycle == InitCycle /\ [][NextCycle]_vars

\* ------------------------------------------------ a deletion and an unmodified copy
\* Both devices have completed a successful sync and hold the file of path 1
\* with the hash of the server's entry.  A sync that committed, or downloaded
\* and committed, has left the server's manifest as baseManifest; a sync whose
\* diff was empty has left baseManifest as it was (null on a device that never
\* committed).  Device 1 then deletes the file; nobody else edits, and no sync
\* is forced.
AgreedManifest == SyncManifest([p \in {1} |-> FileEntry(1, 1)])

InitDelete ==
  /\ IdleDiffArgs
  /\ manifestObj = StoredObject(AgreedManifest, generateEtag(0))
  /\ etagCounter = 1
  /\ objects = [p \in VaultPaths |-> HashOrNone(AgreedManifest, p)]
  /\ req = [c \in Clients |-> NoRequest]
  /\ vault = [d \in Devices |-> [p \in VaultPaths |-> HashOrNone(AgreedManifest, p)]]
  /\ edits = 0
  /\ settings \in [Devices -> [conflictStrategy : ConflictStrategies, excludePatterns : {{}}]]
  /\ baseManifest \in [Devices -> {Null, AgreedManifest}]
  /\ lastEtag = [d \in Devices |->
                   IF baseManifest[d] = Null THEN NoString ELSE HttpEtagOf(generateEtag(0))]
  /\ isSyncing = [d \in Devices |-> FALSE]
  /\ notice = [d \in Devices |-> "complete"]
  /\ running = [d \in Devices |-> 0]
  /\ pc = [d \in Devices |-> "idle"]
  /\ retries = [d \in Devices |-> 0]
  /\ force = [d \in Devices |-> FALSE]
  /\ cyc = [d \in Devices |-> NoCycle]
  /\ commitLog = {}
  /\ behind = [d \in Devices |-> FALSE]
  /\ rerunClean = [d \in Devices |-> FALSE]
  /\ cycles = [d \in Devices |-> 0]
  /\ IdleQueue
  /\ IdleApp
  /\ IdleLib

NextDelete ==
  \/ UserDelete(1, 1)
  \/ \E d \in Devices :
       \/ triggerSync(d, FALSE)
       \/ Scan(d)
       \/ Fetch(d)
       \/ Download(d)
       \/ Upload(d)
       \/ DeleteRemote(d)
       \/ DeleteLocal(d)
       \/ Commit(d)
       \/ SrvHead(d)
       \/ SrvPut(d)
       \/ Receive(d)

SpecDelete == InitDelete /\ [][NextDelete]_vars

\* ------------------------------------------------ one device, two paths
\* every strategy of the settings
AllStrategies == ConflictStrategies \cup {"three-way-merge", "ask"}

\* one device with any vault over two paths, any manifest on the server with
\* its objects, and any base manifest it saved at an earlier revision
InitOrder ==
  /\ IdleDiffArgs
  /\ \E m \in ManifestsOver(Paths, VaultHashes) \cup {Null},
        b \in ManifestsOver(Paths, VaultHashes) \cup {Null} :
        /\ b # Null => m # Null
        /\ manifestObj = IF m = Null THEN Null ELSE StoredObject(m, generateEtag(0))
        /\ etagCounter = IF m = Null THEN 0 ELSE 1
        /\ objects = [p \in Paths |-> HashOrNone(m, p)]
        /\ baseManifest = [d \in Devices |-> IF d = Owner THEN b ELSE Null]
        /\ lastEtag = [d \in Devices |->
                         IF d = Owner /\ b # Null THEN HttpEtagOf(EarlierEtag) ELSE NoString]
  /\ req = [c \in Clients |-> NoRequest]
  /\ vault \in {v \in [Devices -> [Paths -> VaultHashes \cup {NoHash}]] :
                  \A d \in Devices \ {Owner} : \A p \in Paths : v[d][p] = NoHash}
  /\ edits = 0
  /\ settings \in {st \in [Devices -> [conflictStrategy : AllStrategies, excludePatterns : {{}}]] :
                     \A d \in Devices \ {Owner} : st[d].conflictStrategy = "keep-local"}
  /\ isSyncing = [d \in Devices |-> FALSE]
  /\ notice = [d \in Devices |-> "none"]
  /\ running = [d \in Devices |-> 0]
  /\ pc = [d \in Devices |-> "idle"]
  /\ retries = [d \in Devices |-> 0]
  /\ force = [d \in Devices |-> FALSE]
  /\ cyc = [d \in Devices |-> NoCycle]
  /\ commitLog = {}
  /\ behind = [d \in Devices |-> FALSE]
  /\ rerunClean = [d \in Devices |-> FALSE]
  /\ cycles = [d \in Devices |-> 0]
  /\ IdleQueue
  /\ IdleApp
  /\ IdleLib

NextOrder ==
  \/ \E forceFullSync \in BOOLEAN : triggerSync(Owner, forceFullSync)
  \/ Scan(Owner)
  \/ Fetch(Owner)
  \/ Resolve(Owner)
  \/ Download(Owner)
  \/ Upload(Owner)
  \/ DeleteRemote(Owner)
  \/ DeleteLocal(Owner)
  \/ DeleteLocalFails(Owner)
  \/ Commit(Owner)
  \/ SrvHead(Owner)
  \/ SrvPut(Owner)
  \/ Receive(Owner)
  \/ RequestFails(Owner)

SpecOrder == InitOrder /\ [][NextOrder]_vars

\* ------------------------------------------------ properties: diffManifests
HashIn(m, p) == IF m # Null /\ p \in DOMAIN m.files THEN m.files[p].hash ELSE NoHash

\* the paths held by each bucket
UploadPaths(d) == { e.path : e \in Range(d.toUpload) }
DownloadPaths(d) == { e.path : e \in Range(d.toDownload) }
DeleteRemotePaths(d) == Range(d.toDeleteRemote)
DeleteLocalPaths(d) == Range(d.toDeleteLocal)
ConflictPaths(d) == { c.path : c \in Range(d.conflicts) }

BucketsHolding(d, p) ==
  {b \in {"toUpload", "toDownload", "toDeleteRemote", "toDeleteLocal", "conflicts"} :
     \/ b = "toUpload" /\ p \in UploadPaths(d)
     \/ b = "toDownload" /\ p \in DownloadPaths(d)
     \/ b = "toDeleteRemote" /\ p \in DeleteRemotePaths(d)
     \/ b = "toDeleteLocal" /\ p \in DeleteLocalPaths(d)
     \/ b = "conflicts" /\ p \in ConflictPaths(d)}

CountIn(s, P(_)) == Cardinality({ i \in DOMAIN s : P(s[i]) })

Occurrences(d, p) ==
  LET IsP(x) == x = p
      HasP(x) == x.path = p
  IN  CountIn(d.toUpload, HasP) + CountIn(d.toDownload, HasP)
        + CountIn(d.toDeleteRemote, IsP) + CountIn(d.toDeleteLocal, IsP)
        + CountIn(d.conflicts, HasP)

\* the classification table of the three-manifest diff, by presence and hash
TableBuckets(l, r, b) ==
  IF l # NoHash /\ r = NoHash THEN
       IF b = NoHash THEN {"toUpload"}
       ELSE IF l # b THEN {"conflicts"} ELSE {"toDeleteLocal"}
  ELSE IF l = NoHash /\ r # NoHash THEN
       IF b = NoHash THEN {"toDownload"}
       ELSE IF r # b THEN {"conflicts"} ELSE {"toDeleteRemote"}
  ELSE IF l # NoHash /\ r # NoHash THEN
       IF l = r THEN {}
       ELSE IF b # NoHash /\ l # b /\ r = b THEN {"toUpload"}
       ELSE IF b # NoHash /\ l = b /\ r # b THEN {"toDownload"}
       ELSE {"conflicts"}
  ELSE {}

\* C7: diffManifests puts every path in exactly the bucket the classification
\* table gives for its presence and hashes in local, remote and base (a path in
\* none of the three, or in base only, is in no bucket).
C7_ClassificationTable ==
  dPhase = "done" =>
    \A p \in Paths :
      BucketsHolding(dResult, p)
        = TableBuckets(HashIn(dLocal, p), HashIn(dRemote, p), HashIn(dBase, p))

C7_Witness ==
  /\ dPhase = "done"
  /\ \E p, q \in Paths :
       /\ p # q
       /\ p \in ConflictPaths(dResult)
       /\ HashIn(dLocal, p) # NoHash /\ HashIn(dRemote, p) # NoHash /\ HashIn(dBase, p) # NoHash
       /\ q \in DeleteRemotePaths(dResult)

\* C8: every path is in at most one of the five buckets, and at most once there.
C8_AtMostOneBucket ==
  dPhase = "done" => \A p \in Paths : Occurrences(dResult, p) <= 1

C8_Witness ==
  /\ dPhase = "done"
  /\ \E p, q \in Paths :
       /\ p # q
       /\ Occurrences(dResult, p) = 1 /\ p \in ConflictPaths(dResult)
       /\ HashIn(dRemote, p) = NoHash
       /\ Occurrences(dResult, q) = 1 /\ q \in DeleteLocalPaths(dResult)

\* C9: when local.files = remote.files the diff is empty, whatever the base is.
C9_EqualFilesEmptyDiff ==
  (dPhase = "done" /\ dLocal.files = dRemote.files) => isDiffEmpty(dResult)

C9_Witness ==
  /\ dPhase = "done"
  /\ dLocal.files = dRemote.files
  /\ dBase # Null
  /\ \E p, q \in Paths :
       /\ p # q
       /\ HashIn(dLocal, p) # NoHash /\ HashIn(dBase, p) # NoHash
       /\ HashIn(dBase, p) # HashIn(dLocal, p)
       /\ HashIn(dLocal, q) = NoHash /\ HashIn(dBase, q) # NoHash
  /\ isDiffEmpty(dResult)

\* C10: a path present on both sides with equal hashes is never uploaded,
\* downloaded or reported as a conflict, whatever the base holds for it.
C10_EqualHashUntouched ==
  dPhase = "done" =>
    \A p \in Paths :
      (HashIn(dLocal, p) # NoHash /\ HashIn(dLocal, p) = HashIn(dRemote, p))
        => /\ p \notin UploadPaths(dResult)
           /\ p \notin DownloadPaths(dResult)
           /\ p \notin ConflictPaths(dResult)

C10_Witness ==
  /\ dPhase = "done"
  /\ dLocal.files # dRemote.files
  /\ \E p \in Paths :
       /\ HashIn(dLocal, p) # NoHash /\ HashIn(dLocal, p) = HashIn(dRemote, p)
       /\ HashIn(dBase, p) # NoHash /\ HashIn(dBase, p) # HashIn(dLocal, p)
       /\ BucketsHolding(dResult, p) = {}

\* ------------------------------------------------ properties: PUT /manifest
\* the step in which the worker finishes client c's PUT /manifest
Answers(c) == req[c].stage # "resp" /\ req'[c].stage = "resp"

\* the request body became the stored manifest, under a fresh ETag
Commits(c) ==
  /\ manifestObj' # manifestObj
  /\ manifestObj'.body = req[c].body
  /\ req'[c].etag = manifestObj'.httpEtag

\* C4: a PUT /manifest carrying If-Match commits (200) exactly when the header
\* value, quotes stripped, equals the ETag of the manifest stored at that
\* moment; otherwise it is answered 412 and the stored manifest is unchanged.
C4_IfMatchCommitsIffEqual ==
  [][\A c \in Clients :
       (Answers(c) /\ req[c].ifMatch # NoString) =>
         IF manifestObj # Null /\ StripQuotes(req[c].ifMatch) = manifestObj.etag
         THEN req'[c].status = 200 /\ Commits(c)
         ELSE req'[c].status = 412 /\ manifestObj' = manifestObj]_vars

\* C5: a PUT /manifest without If-Match succeeds exactly when no manifest
\* object exists at the time of the write; when one exists the answer is 428
\* and the stored manifest and its ETag are unchanged.
C5_NoIfMatchOnlyFirstWrite ==
  [][\A c \in Clients :
       (Answers(c) /\ req[c].ifMatch = NoString) =>
         IF manifestObj = Null
         THEN req'[c].status = 200 /\ Commits(c)
         ELSE req'[c].status = 428 /\ manifestObj' = manifestObj]_vars

\* ------------------------------------------------ properties: sync cycles
\* C1: of the cycles of different devices that fetched the same manifest
\* revision (the same ETag, or no manifest and ETag null), at most one gets
\* its PUT /manifest committed.
C1_AtMostOneWinner ==
  \A a, b \in commitLog : a.device # b.device => a.etag # b.etag

\* the device's persisted base and ETag are those of the manifest the bucket holds
BaseMatchesServer(d) ==
  IF manifestObj = Null
  THEN /\ baseManifest[d] = Null \/ baseManifest[d].files = EmptyFiles
       /\ ~Truthy(lastEtag[d])
  ELSE /\ baseManifest[d] = manifestObj.body
       /\ lastEtag[d] = manifestObj.httpEtag

\* d's last sync() returned without error
SyncSucceeded(d) == pc[d] = "idle" /\ notice[d] = "complete"

\* C2: after a successful sync() of a device, whatever its diff was, and as
\* long as no other device has committed since, the device's baseManifest is
\* the manifest stored at the server and its lastEtag the server's ETag.
C2_BaseEqualsServerAfterSync ==
  \A d \in Devices : (SyncSucceeded(d) /\ ~behind[d]) => BaseMatchesServer(d)

\* C3: at most one sync() runs on a client; a triggerSync arriving while
\* isSyncing is set changes nothing but the log line, and a cycle starts only
\* in the trigger step itself (a dropped trigger is not run later).
C3_AtMostOneCycle ==
  /\ [](\A d \in Devices : running[d] <= 1 /\ (isSyncing[d] <=> running[d] = 1))
  /\ [][\A d \in Devices :
          /\ (notice'[d] = "skipping" /\ notice[d] # "skipping")
               => /\ isSyncing[d]
                  /\ UNCHANGED <<manifestObj, etagCounter, req, objects, vault, edits,
                                 settings, baseManifest, lastEtag, isSyncing, running, pc,
                                 retries, force, cyc>>
          /\ (pc[d] = "idle" /\ pc'[d] # "idle")
               => (~isSyncing[d] /\ notice'[d] = "syncing")]_vars

C3_Witness ==
  \E d \in Devices :
    /\ notice[d] = "skipping"
    /\ isSyncing[d]
    /\ pc[d] = "await"
    /\ req[d].stage = "put"

\* C6: after a 412, sync() runs the cycle again from the scan; when no other
\* device commits during the re-run its commit is not rejected, and once the
\* sync() has returned the device's baseManifest and lastEtag are the server's.
C6_RetrySucceedsAndMatches ==
  \A d \in Devices :
    /\ (rerunClean[d] /\ pc[d] = "await" /\ req[d].stage = "resp") => req[d].status = 200
    /\ (rerunClean[d] /\ SyncSucceeded(d)) => BaseMatchesServer(d)

\* ------------------------------------------------ properties: exclusion
\* the paths device d excludes
ExcludedPaths(d) == {p \in VaultPaths : isExcluded(settings[d].excludePatterns, p)}

\* C11: a path that matches one of a device's exclude patterns appears in no
\* bucket of the diff that device computes, whatever the remote and base
\* manifests hold for it.
C11_ExcludedPathInNoBucket ==
  \A d \in Devices :
    cyc[d].diff # Null => \A p \in ExcludedPaths(d) : BucketsHolding(cyc[d].diff, p) = {}

\* ------------------------------------------------ properties: TransferQueue
\* tasks whose execute() has started and not yet settled
Executing == {t \in Tasks : task[t].stage = "running"}

\* C12: at most `concurrency` tasks are executing at any time, and the
\* active counter stays within 0..concurrency.
C12_AtMostConcurrencyRunning ==
  /\ Cardinality(Executing) <= concurrency
  /\ active \in 0..concurrency

C12_Witness ==
  /\ concurrency = MaxConcurrency
  /\ Cardinality(Executing) = concurrency
  /\ Len(queue) > 0
  /\ \E t \in Executing : task[t].execs >= 2

\* the task has not started its first execution
Fresh(t) == task[t].execs = 0

\* C13: first executions start in enqueue order, and a task re-queued by its
\* retry timer is started before every task still waiting for its first
\* execution.
C13_FifoAndRetryAtHead ==
  /\ [](/\ \A t, u \in Tasks : (u < t /\ ~Fresh(t)) => ~Fresh(u)
        /\ \A i, j \in DOMAIN queue : (i < j /\ Fresh(queue[i])) => Fresh(queue[j]))
  /\ [][\A t \in Tasks :
          (Fresh(t) /\ task'[t].execs = 1) => \A i \in DOMAIN queue : Fresh(queue[i])]_vars

C13_Witness ==
  \E t, u \in Tasks :
    /\ task[t].execs >= 2 /\ task[t].stage = "running"
    /\ Fresh(u) /\ \E i \in DOMAIN queue : queue[i] = u

\* the delay the claim gives for the retry after the k-th failure
ClaimedDelay(k) == CASE k = 1 -> 1000 [] k = 2 -> 2000 [] k = 3 -> 4000 [] OTHER -> -1

\* C14: a task is executed at most 4 times, and the retry after its k-th
\* failure is scheduled with a delay of 1000, 2000, 4000 ms for k = 1, 2, 3.
C14_RetriesAndBackoff ==
  \A t \in Tasks :
    /\ task[t].execs <= 4
    /\ task[t].execs <= TRANSFER_MAX_RETRIES + 1
    /\ TimerSet(task[t]) =>
         /\ task[t].delay = ClaimedDelay(task[t].execs)
         /\ task[t].delay = RETRY_BACKOFF_MS * 2 ^ (task[t].execs - 1)

C14_Witness ==
  \E t, u \in Tasks :
    /\ task[t].execs = 4 /\ task[t].future = "rejected"
    /\ task[u].execs = 3 /\ task[u].stage = "waiting" /\ task[u].delay = 4000

\* C15: the future of a task is rejected only when its 4th execution has
\* failed, with that execution's error (a thrown value that is no Error
\* wrapped in an Error carrying its string form); when an execution succeeds
\* the future resolves with that execution's result; once the future is
\* settled the task is never executed again.
C15_FutureSettlesWithLastOutcome ==
  /\ [](\A t \in Tasks :
          /\ task[t].future = "rejected" =>
               /\ task[t].execs = 4
               /\ ~task[t].outcome.ok
               /\ task[t].reason =
                    IF task[t].outcome.error.isError
                    THEN task[t].outcome.error
                    ELSE [isError |-> TRUE, message |-> <<task[t].outcome.error.v>>, v |-> 0]
          /\ task[t].future = "resolved" =>
               /\ task[t].outcome.ok
               /\ task[t].value = task[t].outcome.result)
  /\ [][\A t \in Tasks :
          task[t].future # "pending" =>
            /\ task'[t].future = task[t].future
            /\ task'[t].execs = task[t].execs
            /\ task'[t].outcome = task[t].outcome]_vars

C15_Witness ==
  \E t, u \in Tasks :
    /\ task[t].future = "rejected" /\ ~task[t].outcome.error.isError
    /\ task[u].future = "resolved" /\ task[u].execs >= 2 /\ task[u].stage = "done"

\* ------------------------------------------------ properties: the worker
\* the request has been answered, or handed to its route
Handled == appRes # NoResponse

\* t is d + ":" + lowercase-hex(HMAC-SHA-256(s, d)) for some string d
DocumentedToken(s, t) ==
  \E k \in 0..Len(t) : t = SubSeq(t, 1, k) \o <<":">> \o HmacHex(s, SubSeq(t, 1, k))

ValidBearer(header, s) == StartsWith(header, BEARER) /\ DocumentedToken(s, Slice(header, 7))

Protected(request) == request.route # "/health"

\* C16: the middleware accepts a bearer token t iff t = d + ":" +
\* hex(HMAC(secret, d)) for some device id d, ids containing ":" included, and
\* answers 401 to every other token.
C16_AcceptsExactlyDocumentedTokens ==
  (Handled /\ Protected(appReq) /\ StartsWith(appReq.authorization, BEARER)) =>
    (appRes.status # 401 <=> DocumentedToken(env.AUTH_SECRET, Slice(appReq.authorization, 7)))

RECURSIVE SlashSegments(_, _)
\* the segments of a path, split at "/"
SlashSegments(str, cur) ==
  IF str = <<>> THEN <<cur>>
  ELSE IF Head(str) = "/" THEN <<cur>> \o SlashSegments(Tail(str), <<>>)
  ELSE SlashSegments(Tail(str), Append(cur, Head(str)))

\* a path with none of the defects the validation names
ValidPath(path) ==
  /\ path # <<>>
  /\ ~StartsWith(path, <<"/">>) /\ ~StartsWith(path, <<"\\">>)
  /\ \A i \in DOMAIN SlashSegments(path, <<>>) : SlashSegments(path, <<>>)[i] # <<"..">>
  /\ ~StartsWith(path, <<".obsidian-r2-sync", "/">>)

\* the bulk request names no path, or a path that is not valid
BadBulk(paths) == Len(paths) = 0 \/ \E i \in DOMAIN paths : ~ValidPath(paths[i])

StoreUntouched ==
  /\ manifestObj = StoredObject(SyncManifest(EmptyFiles), generateEtag(0))
  /\ r2 = {R2KeyOf(<<"a.md">>)}

\* C18: every file route answers 400, issues no URL and deletes nothing for a
\* path that is empty, starts with "/" or "\", has a ".." segment or lies under
\* ".obsidian-r2-sync/"; any other path is accepted with 200.
C18_InvalidPathRejected ==
  Handled =>
    /\ appReq.route \in {"/files/upload-url", "/files/download-url"} =>
         IF ValidPath(appReq.path)
         THEN appRes.status = 200
         ELSE appRes.status = 400 /\ appRes.url = NoUrl
    /\ appReq.route = "/files/delete" =>
         /\ (\A i \in DOMAIN appReq.paths : ValidPath(appReq.paths[i]) /\ Len(appReq.paths) > 0)
              => appRes.status = 200
         /\ (\E i \in DOMAIN appReq.paths : ~ValidPath(appReq.paths[i]))
              => appRes.status = 400 /\ r2 = {R2KeyOf(<<"a.md">>)}

\* C19: POST /files/delete with an empty array, or with at least one invalid
\* path, is answered 400 and deletes no object, the objects of the valid
\* paths of the same array included.
C19_BulkDeleteAllOrNothing ==
  (Handled /\ appReq.route = "/files/delete" /\ BadBulk(appReq.paths)) =>
    (appRes.status = 400 /\ appRes.deleted = 0 /\ StoreUntouched)

\* C20: no file route issues a presigned URL that addresses the manifest
\* object or a key outside "vault/", and the manifest object changes only by
\* a successful PUT /manifest.
C20_FileRoutesStayUnderVault ==
  /\ [](appRes.url # NoUrl =>
          /\ appRes.url.bucket = <<BUCKET_NAME>>
          /\ appRes.url.key # MANIFEST_KEY
          /\ StartsWith(appRes.url.key, FILES_PREFIX))
  /\ [][manifestObj' # manifestObj =>
          \E c \in Clients : req[c].stage = "put" /\ req'[c].status = 200]_vars

\* ------------------------------------------------ properties: the retry loop
\* C21: one sync() call executes the cycle at most 3 times; a further
\* execution starts only when the previous one ended with 412 on PUT /manifest
\* (not after 428, a failed request or a failed transfer); when the third
\* execution ends with 412, sync() fails with that error.
C21_AtMostThreeCyclesRetryOnly412 ==
  /\ [](\A d \in Devices : cycles[d] <= 3)
  /\ [][\A d \in Devices :
          /\ (cycles[d] >= 1 /\ pc[d] # "scan" /\ pc'[d] = "scan") =>
               (pc[d] = "await" /\ req[d].stage = "resp" /\ req[d].status = 412)
          /\ (cycles[d] = 3 /\ pc[d] = "await" /\ req[d].stage = "resp" /\ req[d].status = 412
                /\ pc'[d] # "await") =>
               (pc'[d] = "idle" /\ notice'[d] = "failed: 412" /\ ~isSyncing'[d])]_vars

C21_Witness ==
  /\ cycles[1] = 3 /\ pc[1] = "await" /\ req[1].stage = "resp" /\ req[1].status = 412

\* ------------------------------------------------ properties: the cycle
\* the step of device d is the resolution of the next conflict of its cycle
\* (not a request that failed on the network)
ResolveStep(d) ==
  /\ pc[d] = "resolve"
  /\ <<pc[d], cyc[d]>>' # <<pc[d], cyc[d]>>
  /\ notice'[d] # "failed: request"

NextConflict(d) == cyc[d].diff.conflicts[cyc[d].ci]

\* C23: a step that ends or restarts a cycle without success leaves the
\* device's baseManifest and lastEtag as they were; both change only in the
\* step that receives 200 for PUT /manifest, and that step ends the sync with
\* success.
C23_BaseKeptUnlessCommitted ==
  [][\A d \in Devices :
       (baseManifest'[d] # baseManifest[d] \/ lastEtag'[d] # lastEtag[d]) =>
         /\ pc[d] = "await" /\ req[d].stage = "resp" /\ req[d].status = 200
         /\ notice'[d] = "complete"]_vars

\* C24: under keep-local every conflict of the diff is resolved by uploading
\* its local entry, the cycle goes on, and the manifest sent to PUT /manifest
\* maps the conflict's path to that local entry.
C24_KeepLocalUploadsLocalEntry ==
  /\ [][\A d \in Devices :
          (settings[d].conflictStrategy = "keep-local" /\ ResolveStep(d)) =>
            /\ pc'[d] # "idle"
            /\ cyc'[d].resolved =
                 Append(cyc[d].resolved,
                        ResolvedConflict(NextConflict(d).path, "uploaded", NextConflict(d).local))
            /\ objects'[NextConflict(d).path] = vault[d][NextConflict(d).path]]_vars
  /\ [](\A d \in Devices :
          (settings[d].conflictStrategy = "keep-local" /\ pc[d] = "await") =>
            \A i \in DOMAIN cyc[d].diff.conflicts :
              LET c == cyc[d].diff.conflicts[i]
              IN  /\ c.path \in DOMAIN req[d].body.files
                  /\ req[d].body.files[c.path] = c.local)

\* C25: under keep-remote every conflict of the diff is resolved by
\* downloading its remote entry, the cycle goes on, and the manifest sent to
\* PUT /manifest maps the conflict's path to that entry; a path deleted
\* locally and modified remotely is one conflict with the base entry as its
\* local side and the remote entry as its remote side.
C25_KeepRemoteDownloadsRemoteEntry ==
  /\ [][\A d \in Devices :
          (settings[d].conflictStrategy = "keep-remote" /\ ResolveStep(d)) =>
            /\ pc'[d] # "idle"
            /\ cyc'[d].resolved =
                 Append(cyc[d].resolved,
                        ResolvedConflict(NextConflict(d).path, "downloaded", NextConflict(d).remote))
            /\ vault'[d][NextConflict(d).path] = objects[NextConflict(d).path]]_vars
  /\ [](\A d \in Devices :
          (settings[d].conflictStrategy = "keep-remote" /\ pc[d] = "await") =>
            \A i \in DOMAIN cyc[d].diff.conflicts :
              LET c == cyc[d].diff.conflicts[i]
              IN  /\ c.path \in DOMAIN req[d].body.files
                  /\ req[d].body.files[c.path] = c.remote)
  /\ [](\A d \in Devices : \A p \in VaultPaths :
          (/\ pc[d] \notin {"idle", "scan", "fetch"}
           /\ HashIn(cyc[d].localManifest, p) = NoHash
           /\ HashIn(IF force[d] THEN Null ELSE baseManifest[d], p) # NoHash
           /\ HashIn(cyc[d].remoteManifest, p) \notin
                {NoHash, HashIn(IF force[d] THEN Null ELSE baseManifest[d], p)}) =>
            /\ Occurrences(cyc[d].diff, p) = 1
            /\ \E i \in DOMAIN cyc[d].diff.conflicts :
                 /\ cyc[d].diff.conflicts[i].path = p
                 /\ cyc[d].diff.conflicts[i].local = EntryOf(baseManifest[d], p)
                 /\ cyc[d].diff.conflicts[i].remote = EntryOf(cyc[d].remoteManifest, p))

\* ------------------------------------------------ properties: the bucket
\* C28: in every reachable state of interleaved cycles, each entry p -> e of
\* the server manifest has an object stored at vault/<p> whose content hash is
\* e.hash.
C28_ManifestEntriesHaveTheirObjects ==
  manifestObj # Null =>
    \A p \in DOMAIN manifestObj.body.files :
      objects[p] = manifestObj.body.files[p].hash

\* ------------------------------------------------ properties: deletions
\* device d, which holds an unmodified copy of path p, has fetched a server
\* manifest from which a committed deletion has removed p
SeesDeletion(d, p) ==
  /\ pc[d] \notin {"idle", "scan", "fetch"}
  /\ HashIn(cyc[d].localManifest, p) = HashIn(AgreedManifest, p)
  /\ HashIn(cyc[d].remoteManifest, p) = NoHash

\* C29: once a device has deleted p and committed a manifest without p, a
\* device that completed a successful sync while its copy of p and the
\* server's entry had the same hash, and has not modified p since, does not
\* re-upload p: its next cycle puts p in toDeleteLocal, and when that sync
\* succeeds p is gone from its vault and absent from the manifest it commits.
C29_CommittedDeletionNotUndone ==
  /\ [](\A d \in Devices : \A p \in DOMAIN AgreedManifest.files :
          SeesDeletion(d, p) =>
            (p \in DeleteLocalPaths(cyc[d].diff) /\ p \notin UploadPaths(cyc[d].diff)))
  /\ [][\A d \in Devices : \A p \in DOMAIN AgreedManifest.files :
          (SeesDeletion(d, p) /\ pc'[d] = "idle" /\ notice'[d] = "complete") =>
            (vault'[d][p] = NoHash /\ HashIn(manifestObj.body, p) = NoHash)]_vars

\* ------------------------------------------------ properties: applyDiffToManifest
\* C27: applyDiffToManifest leaves its input manifest unchanged: after the
\* call the input's files object holds the paths and entries it held before,
\* whatever the diff uploads, downloads or deletes.
C27_InputManifestUnchanged ==
  apply.phase = "returned" => heap[apply.base] = apply.before

C27_Witness ==
  /\ apply.phase = "returned"
  /\ heap[apply.result] # apply.before
  /\ \E p, q \in DOMAIN apply.before :
       /\ p \in Range(apply.diff.toDeleteRemote) \cup Range(apply.diff.toDeleteLocal)
       /\ \E i \in DOMAIN apply.diff.toUpload :
            /\ apply.diff.toUpload[i].path = q
            /\ apply.diff.toUpload[i] # apply.before[q]
       /\ p \notin DOMAIN heap[apply.result]
       /\ heap[apply.result][q] # apply.before[q]

\* ------------------------------------------------ properties: ConflictModal
\* C26: under strategy ask the prompt for a conflict yields exactly one
\* resolution, exactly once, from keep-local, keep-remote and merge: a click
\* yields the button's value and the close that follows yields no second one,
\* a prompt closed without a choice yields keep-local, and the caller
\* receives that one resolution.
C26_PromptYieldsOneResolution ==
  /\ [](/\ Len(modal.calls) <= 1
        /\ modal.stage = "closed" =>
             /\ Len(modal.calls) = 1
             /\ modal.calls[1] \in ConflictResolutions
             /\ modal.input \in ConflictResolutions => modal.calls[1] = modal.input
             /\ modal.input = "dismiss" => modal.calls[1] = "keep-local")
  /\ [][(modal.stage = "closed" /\ modal'.stage # "closed") =>
          asked' = Append(asked, IF modal.input = "dismiss" THEN "keep-local" ELSE modal.input)]_vars

C26_Witness ==
  /\ modal.stage = "closed"
  /\ modal.input = "keep-remote"
  /\ modal.calls = <<"keep-remote">>
  /\ asked = <<"keep-local", "merge">>

\* ------------------------------------------------ properties: transfers
\* C22: an API request of a cycle that is answered 401 is not attempted
\* again, neither by the engine nor by the transfer queue, and the cycle
\* fails: a transfer task whose download-url or upload-url request was
\* answered 401 sends no further request, a step of the engine that meets a
\* 401 ends the sync with the failure, and no sync with a denied request
\* reports completion.
C22_No401Retry ==
  /\ [][\A t \in Tasks : task[t].denied => task'[t].requests = task[t].requests]_vars
  /\ [][\A d \in Devices :
          (pc[d] \in {"fetch", "resolve", "deleteRemote", "commit"} /\ ~Authorized /\ pc'[d] # pc[d]) =>
            (pc'[d] = "idle" /\ notice'[d] = "failed: 401")]_vars
  /\ [](\A d \in Devices : \A t \in cyc[d].awaited :
          task[t].denied => pc[d] \in {"download", "upload"})

\* C30: when a sync() call has ended and isSyncing is false again, the
\* engine's transfer queue has no running, pending or retry-delayed task, and
\* no transfer writes to the vault or to the bucket while no sync is running.
C30_QueueIdleAfterSync ==
  /\ [](~isSyncing[Owner] =>
          /\ queue = <<>>
          /\ active = 0
          /\ \A t \in Tasks : task[t].stage \in {"new", "done"})
  /\ [][~isSyncing[Owner] => (vault' = vault /\ objects' = objects)]_vars

\* ------------------------------------------------ properties: the order of the steps
\* the vault and the bucket hold the same content at the path
Transferred(d, path) == vault[d][path] # NoHash /\ vault[d][path] = objects[path]

\* every transfer of the cycle has been made: each conflict is resolved and
\* each path of toDownload and toUpload has been copied
TransfersDone(d) ==
  /\ Len(cyc[d].resolved) = Len(cyc[d].diff.conflicts)
  /\ \A i \in DOMAIN cyc[d].diff.toDownload : Transferred(d, cyc[d].diff.toDownload[i].path)
  /\ \A i \in DOMAIN cyc[d].diff.toUpload : Transferred(d, cyc[d].diff.toUpload[i].path)

\* C31: in a cycle that reaches the commit, every upload and download
\* (conflict resolutions included) is complete before the bulk remote delete
\* is requested, the remote delete is complete before PUT /manifest is sent,
\* every local deletion happens after the diff and before PUT /manifest, and
\* baseManifest and lastEtag are written only after PUT /manifest was
\* answered 200.
C31_StepsInOrder ==
  /\ [][\A d \in Devices :
          (pc[d] = "deleteRemote" /\ objects' # objects) => TransfersDone(d)]_vars
  /\ [][\A d \in Devices :
          (req[d].stage = "none" /\ req'[d].stage # "none") =>
            /\ TransfersDone(d)
            /\ \A p \in Range(cyc[d].diff.toDeleteRemote) : objects[p] = NoHash
            /\ \A p \in Range(cyc[d].diff.toDeleteLocal) : vault[d][p] = NoHash]_vars
  /\ [][\A d \in Devices : \A p \in DOMAIN vault[d] :
          (vault[d][p] # NoHash /\ vault'[d][p] = NoHash) =>
            (pc[d] = "deleteLocal" /\ p \in Range(cyc[d].diff.toDeleteLocal)
               /\ req[d].stage = "none")]_vars
  /\ [][\A d \in Devices :
          (baseManifest'[d] # baseManifest[d] \/ lastEtag'[d] # lastEtag[d]) =>
            (pc[d] = "await" /\ req[d].stage = "resp" /\ req[d].status = 200)]_vars

C31_Witness ==
  /\ pc[Owner] = "await"
  /\ req[Owner].stage = "resp"
  /\ req[Owner].status = 200
  /\ Len(cyc[Owner].diff.toUpload) + Len(cyc[Owner].diff.toDownload) >= 1
  /\ Len(cyc[Owner].diff.toDeleteRemote) + Len(cyc[Owner].diff.toDeleteLocal) >= 1

\* ------------------------------------------------ properties: the committed manifest
\* the cycle of the device has sent its PUT /manifest
PutSent(d) == pc[d] = "await" /\ req[d].stage # "none"

\* C32: the manifest a cycle sends in PUT /manifest has the remote files
\* fetched in that cycle, with the entry of each uploaded entry, each resolved
\* conflict and each downloaded entry put in, and each toDeleteRemote path
\* removed; a path the diff does not touch keeps exactly the remote entry.
C32_CommittedManifestContent ==
  \A d \in Devices :
    PutSent(d) =>
      LET sent == req[d].body.files
          diff == cyc[d].diff
          remote == cyc[d].remoteManifest.files
      IN  \A p \in Paths :
            /\ p \in UploadPaths(diff) =>
                 \E e \in Range(diff.toUpload) : e.path = p /\ p \in DOMAIN sent /\ sent[p] = e
            /\ p \in DownloadPaths(diff) =>
                 \E e \in Range(diff.toDownload) : e.path = p /\ p \in DOMAIN sent /\ sent[p] = e
            /\ p \in ConflictPaths(diff) =>
                 \E r \in Range(cyc[d].resolved) :
                   r.path = p /\ p \in DOMAIN sent /\ sent[p] = r.entry
            /\ p \in DeleteRemotePaths(diff) => p \notin DOMAIN sent
            /\ p \notin UploadPaths(diff) \cup DownloadPaths(diff) \cup ConflictPaths(diff)
                         \cup DeleteRemotePaths(diff) =>
                 /\ p \in DOMAIN sent <=> p \in DOMAIN remote
                 /\ p \in DOMAIN sent => sent[p] = remote[p]

C32_Witness ==
  /\ PutSent(Owner)
  /\ DeleteRemotePaths(cyc[Owner].diff) # {}
  /\ UploadPaths(cyc[Owner].diff) \cup ConflictPaths(cyc[Owner].diff) # {}
  /\ req[Owner].body # cyc[Owner].remoteManifest

\* C33: the If-Match a cycle sends with PUT /manifest is the ETag its own
\* GET /manifest returned, whatever lastEtag an earlier cycle persisted, and
\* the header is left out exactly when that GET returned no ETag.
C33_IfMatchIsFetchedEtag ==
  \A d \in Devices :
    PutSent(d) =>
      /\ cyc[d].etag # NoString => req[d].ifMatch = cyc[d].etag
      /\ cyc[d].etag = NoString <=> req[d].ifMatch = NoString

C33_Witness ==
  /\ PutSent(Owner)
  /\ lastEtag[Owner] # NoString
  /\ cyc[Owner].etag # NoString
  /\ lastEtag[Owner] # cyc[Owner].etag
  /\ req[Owner].ifMatch = cyc[Owner].etag

\* C34: every PUT /manifest the engine sends while a manifest object exists
\* on the server carries an If-Match header, under every interleaving with
\* other devices' commits, and no sync ends with 428.
C34_IfMatchOnEveryLaterPut ==
  /\ [][\A d \in Devices :
          (pc[d] = "commit" /\ pc'[d] = "await" /\ manifestObj # Null) =>
            req'[d].ifMatch # NoString]_vars
  /\ [](\A d \in Devices : notice[d] # "failed: 428")

\* the messages of a failed presigned fetch
TransferFailures == {"failed: Failed to download", "failed: Failed to upload"}

\* C35: every file upload and download of a cycle, those that resolve
\* conflicts included, runs as a task of the transfer queue: the vault and the
\* bucket change only when a task's execute() settles, and a failed transfer
\* fails the cycle only through a task that was retried MAX_RETRIES times.
C35_EveryTransferIsQueued ==
  /\ [][(vault' # vault \/ objects' # objects) =>
          \E t \in Tasks : task[t].stage = "running" /\ task'[t].stage = "settled"]_vars
  /\ [][\A d \in Devices :
          (pc[d] # "idle" /\ pc'[d] = "idle" /\ notice'[d] \in TransferFailures) =>
            \E t \in Tasks : /\ task[t].future = "rejected"
                             /\ task[t].retries = TRANSFER_MAX_RETRIES
                             /\ task[t].reason.message = <<notice'[d]>>]_vars

\* C36: a local deletion that fails in the vault does not fail the cycle:
\* from step 9 the cycle goes on to the remaining local deletions and to the
\* commit, and no sync ends with the failure of a local deletion.
C36_LocalDeleteFailureTolerated ==
  /\ [][\A d \in Devices :
          pc[d] = "deleteLocal" => pc'[d] \in {"deleteLocal", "commit"}]_vars
  /\ [](\A d \in Devices : notice[d] # "failed: delete")

\* ------------------------------------------------ properties: merge
\* the conflict the device resolves next
NextConflictOf(d) == cyc[d].diff.conflicts[cyc[d].ci]

C38_FlagFollowsSync ==
  /\ [](\A d \in Devices : (isSyncing[d] <=> running[d] = 1) /\ (isSyncing[d] <=> pc[d] # "idle"))
  /\ [][\A d \in Devices :
          (pc[d] = "idle" /\ notice'[d] # notice[d]) => (isSyncing'[d] /\ pc'[d] = "scan")]_vars

C38_Witness ==
  /\ pc[Owner] = "idle"
  /\ ~isSyncing[Owner]
  /\ running[Owner] = 0
  /\ notice[Owner] = "failed: 412"

\* ------------------------------------------------ properties: the queue drains
\* every enqueued task has run its last .finally callback
AllDone == \A t \in Tasks : task[t].stage \in {"new", "done"}

\* the future of every enqueued task is settled
AllSettled == \A t \in Tasks : task[t].stage # "new" => task[t].future # "pending"

\* activeCount and pendingCount are 0
CountsZero == active = 0 /\ Len(queue) = 0

\* every future returned by enqueue settles, once
EveryFutureSettles ==
  /\ \A t \in Tasks : (task[t].stage # "new") ~> (task[t].future # "pending")
  /\ \A t \in Tasks : (task[t].stage # "new") ~> (task[t].stage = "done")
  /\ [][\A t \in Tasks : task[t].future # "pending" => task'[t].future = task[t].future]_vars

\* C39, as stated: every future returned by enqueue eventually settles,
\* exactly once, when every execute() call settles and every retry timer
\* fires, and once all tasks have settled activeCount and pendingCount are 0.
C39_CountsZeroOnceSettled ==
  /\ EveryFutureSettles
  /\ [](AllSettled => CountsZero)

\* C39, amended: every future returned by enqueue eventually settles, exactly
\* once, no task stays in the queue forever, and once every task has settled
\* and run its .finally callback activeCount and pendingCount are 0.
C39_EveryFutureSettlesAndQueueDrains ==
  /\ EveryFutureSettles
  /\ [](AllDone => CountsZero)

C39_Witness ==
  /\ \A t \in Tasks : task[t].stage = "done"
  /\ \E t, u \in Tasks : task[t].future = "rejected" /\ task[u].future = "resolved" /\ task[u].execs >= 2
  /\ CountsZero

\* ------------------------------------------------ properties: the HMAC comparison
\* the request went through authMiddleware and its token has a colon
TokenParsed ==
  /\ appRes # NoResponse
  /\ ~IsPublic(appReq)
  /\ StartsWith(appReq.authorization, BEARER)
  /\ IndexOf(Slice(appReq.authorization, 7), ":") # -1

\* the HMAC the request's token carries, and the one the worker computes
ProvidedHmac ==
  LET token == Slice(appReq.authorization, 7) IN Slice(token, IndexOf(token, ":") + 1)

ExpectedHmac ==
  LET token == Slice(appReq.authorization, 7)
  IN  HmacHex(env.AUTH_SECRET, SubSeq(token, 1, IndexOf(token, ":")))

\* C40: a provided HMAC as long as the expected one has every byte position
\* compared, whatever it holds and wherever it differs, so two such inputs
\* take the same number of comparison steps, and one that differs anywhere is
\* answered 401; a provided HMAC of another length is answered 401 with no
\* byte compared.
C40_EveryByteCompared ==
  TokenParsed =>
    IF Len(ProvidedHmac) = Len(ExpectedHmac)
    THEN /\ appRes.compared = Len(ExpectedHmac)
         /\ (ProvidedHmac # ExpectedHmac <=> appRes.status = 401)
    ELSE appRes.compared = 0 /\ appRes.status = 401

\* a token whose HMAC differs from the expected one in the first byte only
C40_Witness ==
  /\ TokenParsed
  /\ Len(ProvidedHmac) = Len(ExpectedHmac)
  /\ Len(ExpectedHmac) >= 2
  /\ ProvidedHmac[1] # ExpectedHmac[1]
  /\ \A i \in 2..Len(ExpectedHmac) : ProvidedHmac[i] = ExpectedHmac[i]
  /\ appRes.compared = Len(ExpectedHmac)
  /\ appRes.status = 401

====
